---- MODULE Spec2Model ----
(***************************************************************************)
(* Model of the Quarto-variables plugin core: the structure-preserving    *)
(* parser (YamlStructureParser), the writer (VariableWriter) and the      *)
(* per-project cache (VariableCache).                                      *)
(*                                                                         *)
(* Text is modelled character by character: a string is a sequence of     *)
(* one-character strings, a file content is the sequence of its lines     *)
(* (content.split('\n'); lines.join('\n') is its inverse).                 *)
(***************************************************************************)
EXTENDS Integers, Sequences, FiniteSets, TLC

(***************************************************************************)
(* JavaScript string primitives                                            *)
(***************************************************************************)
Min(a, b) == IF a <= b THEN a ELSE b
Max(a, b) == IF a >= b THEN a ELSE b

\* s.substring(a, b), 0-based, end exclusive
Substring(s, a, b) == SubSeq(s, Max(a, 0) + 1, Min(b, Len(s)))

\* s.substring(a)
SubstringFrom(s, a) == SubSeq(s, Max(a, 0) + 1, Len(s))

\* s.indexOf(c): 0-based index of the first occurrence of character c, -1 if none
IndexOf(s, c) ==
  IF \E i \in 1..Len(s) : s[i] = c
  THEN (CHOOSE i \in 1..Len(s) : s[i] = c /\ \A j \in 1..(i - 1) : s[j] # c) - 1
  ELSE -1

Includes(s, c) == \E i \in 1..Len(s) : s[i] = c

IsWhite(c) == c \in {" ", "\t"}

\* number of leading white characters (the match of /^\s*/)
LeadingWhite(s) ==
  IF \E i \in 1..Len(s) : ~IsWhite(s[i])
  THEN (CHOOSE i \in 1..Len(s) : ~IsWhite(s[i]) /\ \A j \in 1..(i - 1) : IsWhite(s[j])) - 1
  ELSE Len(s)

TrailingWhite(s) ==
  IF \E i \in 1..Len(s) : ~IsWhite(s[i])
  THEN Len(s) - (CHOOSE i \in 1..Len(s) : ~IsWhite(s[i]) /\ \A j \in (i + 1)..Len(s) : IsWhite(s[j]))
  ELSE Len(s)

\* s.trim()
Trim(s) ==
  IF LeadingWhite(s) = Len(s) THEN <<>>
  ELSE SubSeq(s, LeadingWhite(s) + 1, Len(s) - TrailingWhite(s))

StartsWith(s, c) == Len(s) > 0 /\ s[1] = c

IsDigit(c) == c \in {"0", "1", "2", "3", "4", "5", "6", "7", "8", "9"}

DigitVal(c) ==
  CASE c = "0" -> 0 [] c = "1" -> 1 [] c = "2" -> 2 [] c = "3" -> 3 [] c = "4" -> 4
    [] c = "5" -> 5 [] c = "6" -> 6 [] c = "7" -> 7 [] c = "8" -> 8 [] c = "9" -> 9

DigitChar(d) == <<"0", "1", "2", "3", "4", "5", "6", "7", "8", "9">>[d + 1]

RECURSIVE DigitsToNat(_)
DigitsToNat(s) ==
  IF Len(s) = 0 THEN 0
  ELSE 10 * DigitsToNat(SubSeq(s, 1, Len(s) - 1)) + DigitVal(s[Len(s)])

RECURSIVE NatToDigits(_)
NatToDigits(n) ==
  IF n < 10 THEN <<DigitChar(n)>>
  ELSE Append(NatToDigits(n \div 10), DigitChar(n % 10))

\* path.split('.')
RECURSIVE Split(_, _)
Split(s, c) ==
  IF IndexOf(s, c) = -1 THEN <<s>>
  ELSE <<Substring(s, 0, IndexOf(s, c))>> \o Split(SubstringFrom(s, IndexOf(s, c) + 1), c)

\* parts.join(c)
RECURSIVE Join(_, _)
Join(parts, c) ==
  IF Len(parts) = 0 THEN <<>>
  ELSE IF Len(parts) = 1 THEN parts[1]
  ELSE parts[1] \o <<c>> \o Join(Tail(parts), c)

(***************************************************************************)
(* JavaScript values held by nodes and mappings.  Every value is a record  *)
(* with the same fields: t the tag, s the characters of a string, n the    *)
(* number, m the entries of a mapping as <<key, value>> pairs in insertion *)
(* order.                                                                  *)
(***************************************************************************)
StrV(s) == [t |-> "string", s |-> s, n |-> 0, m |-> <<>>]
NumV(n) == [t |-> "number", s |-> <<>>, n |-> n, m |-> <<>>]
NullV == [t |-> "null", s |-> <<>>, n |-> 0, m |-> <<>>]
UndefV == [t |-> "undefined", s |-> <<>>, n |-> 0, m |-> <<>>]
MapV(m) == [t |-> "object", s |-> <<>>, n |-> 0, m |-> m]
\* a function object (an inherited method reached by a property read)
FuncV == [t |-> "function", s |-> <<>>, n |-> 0, m |-> <<>>]

BoolV(b) == [t |-> "boolean", s |-> <<>>, n |-> IF b THEN 1 ELSE 0, m |-> <<>>]

\* typeof-based classification shared by parser and writer
getValueType(value) ==
  CASE value.t \in {"null", "undefined"} -> "null"
    [] value.t = "string" -> "string"
    [] value.t = "number" -> "number"
    [] value.t = "boolean" -> "boolean"
    [] value.t = "object" -> "object"
    [] OTHER -> "string"

\* String(value) for the values that reach it
ToDisplay(value) ==
  CASE value.t = "string" -> value.s
    [] value.t = "number" -> NatToDigits(value.n)
    [] value.t = "boolean" -> IF value.n = 1 THEN <<"t", "r", "u", "e">> ELSE <<"f", "a", "l", "s", "e">>
    [] value.t = "object" -> <<"[object Object]">>
    [] value.t = "function" -> <<"function () { [native code] }">>
    [] value.t = "null" -> <<"n", "u", "l", "l">>
    [] OTHER -> <<"undefined">>

(***************************************************************************)
(* js-yaml, restricted to the line-oriented subset the plugin reads:      *)
(* block mappings nested by space indentation, plain and double-quoted    *)
(* one-line scalars, full-line and trailing comments.                      *)
(***************************************************************************)
Thrown == [ok |-> FALSE, v |-> UndefV]
Loaded(v) == [ok |-> TRUE, v |-> v]

\* index (1-based) of the quote closing a double-quoted scalar opened at q[1], 0 if none
RECURSIVE ClosingQuote(_, _)
ClosingQuote(q, i) ==
  IF i > Len(q) THEN 0
  ELSE IF q[i] = "\\" THEN ClosingQuote(q, i + 2)
  ELSE IF q[i] = "\"" THEN i
  ELSE ClosingQuote(q, i + 1)

\* the characters of a double-quoted scalar body with \" and \\ unescaped
RECURSIVE Unescape(_)
Unescape(b) ==
  IF Len(b) = 0 THEN <<>>
  ELSE IF b[1] = "\\" /\ Len(b) >= 2 THEN <<b[2]>> \o Unescape(SubSeq(b, 3, Len(b)))
  ELSE <<b[1]>> \o Unescape(Tail(b))

\* escapes of the subset: \" and \\ ; any other escape is rejected
RECURSIVE EscapesKnown(_)
EscapesKnown(b) ==
  IF Len(b) = 0 THEN TRUE
  ELSE IF b[1] = "\\" THEN Len(b) >= 2 /\ b[2] \in {"\"", "\\"} /\ EscapesKnown(SubSeq(b, 3, Len(b)))
  ELSE EscapesKnown(Tail(b))

\* a plain scalar that opens a nested mapping on the same line ("b: c", "b:")
HasMappingColon(s) ==
  \E i \in 1..Len(s) : s[i] = ":" /\ (i = Len(s) \/ IsWhite(s[i + 1]))

TrueWords == {<<"t", "r", "u", "e">>, <<"T", "r", "u", "e">>, <<"T", "R", "U", "E">>}
FalseWords == {<<"f", "a", "l", "s", "e">>, <<"F", "a", "l", "s", "e">>, <<"F", "A", "L", "S", "E">>}
NullWords == {<<"n", "u", "l", "l">>, <<"N", "u", "l", "l">>, <<"N", "U", "L", "L">>, <<"~">>}

\* what may follow the closing quote on the line: nothing, or a comment
QuotedTail(rest) == Len(rest) = 0 \/ rest[1] = "#"

\* a double-quoted scalar q whose closing quote is at c
QuotedAt(q, c) ==
  IF c = 0 THEN Thrown
  ELSE IF ~EscapesKnown(SubSeq(q, 2, c - 1)) THEN Thrown
  ELSE IF ~QuotedTail(Trim(SubSeq(q, c + 1, Len(q)))) THEN Thrown
  ELSE Loaded(StrV(Unescape(SubSeq(q, 2, c - 1))))

\* a double-quoted scalar q (q[1] is the opening quote)
LoadQuoted(q) == QuotedAt(q, ClosingQuote(q, 2))

\* a plain scalar ends at a '#' that follows white space
PlainEnd(s) ==
  IF \E i \in 2..Len(s) : s[i] = "#" /\ IsWhite(s[i - 1])
  THEN (CHOOSE i \in 2..Len(s) : s[i] = "#" /\ IsWhite(s[i - 1])
           /\ \A j \in 2..(i - 1) : ~(s[j] = "#" /\ IsWhite(s[j - 1]))) - 1
  ELSE Len(s)

PlainText(s) == Trim(SubSeq(s, 1, PlainEnd(s)))

\* a plain scalar p resolved by the default schema
PlainScalar(p) ==
  IF HasMappingColon(p) THEN Loaded(MapV(<<>>))
  ELSE IF p \in TrueWords THEN Loaded(BoolV(TRUE))
  ELSE IF p \in FalseWords THEN Loaded(BoolV(FALSE))
  ELSE IF p \in NullWords THEN Loaded(NullV)
  ELSE IF \A i \in 1..Len(p) : IsDigit(p[i]) THEN Loaded(NumV(DigitsToNat(p)))
  ELSE Loaded(StrV(p))

TrimmedScalar(s) ==
  IF Len(s) = 0 \/ s[1] = "#" THEN Loaded(UndefV)
  ELSE IF s[1] = "\"" THEN LoadQuoted(s)
  ELSE PlainScalar(PlainText(s))

\* yaml.load(text) of a one-line scalar with the default schema
YamlLoadScalar(text) == TrimmedScalar(Trim(text))

\* a plain scalar under FAILSAFE_SCHEMA: a string, unless it opens a mapping on its line
FailsafePlain(p) == IF HasMappingColon(p) THEN Thrown ELSE Loaded(StrV(p))

FailsafeTrimmed(s) ==
  IF Len(s) = 0 \/ s[1] = "#" THEN Loaded(NullV)
  ELSE IF s[1] = "\"" THEN LoadQuoted(s)
  ELSE FailsafePlain(PlainText(s))

\* the value of a block-mapping entry under FAILSAFE_SCHEMA: every scalar is a string
FailsafeScalar(text) == FailsafeTrimmed(Trim(text))

\* obj[key] = value on a mapping: an existing key keeps its position
RECURSIVE MapSet(_, _, _)
MapSet(m, k, v) ==
  IF Len(m) = 0 THEN << <<k, v>> >>
  ELSE IF m[1][1] = k THEN << <<k, v>> >> \o Tail(m)
  ELSE <<m[1]>> \o MapSet(Tail(m), k, v)

MapHas(m, k) == \E i \in 1..Len(m) : m[i][1] = k

MapGet(m, k) == m[CHOOSE i \in 1..Len(m) : m[i][1] = k][2]

\* the colon that ends a block-mapping key: the first ':' followed by white space or the line end
KeyColon(s) ==
  IF HasMappingColon(s)
  THEN CHOOSE i \in 1..Len(s) : /\ s[i] = ":" /\ (i = Len(s) \/ IsWhite(s[i + 1]))
                                /\ \A j \in 1..(i - 1) : ~(s[j] = ":" /\ IsWhite(s[j + 1]))
  ELSE 0

\* a content line as a mapping entry: t the line trimmed, c its key colon
EntryAt(line, t, c) ==
  [entry |-> c > 1 /\ ~Includes(SubSeq(line, 1, LeadingWhite(line)), "\t") /\ t[1] # "\"",
   indent |-> LeadingWhite(line),
   key |-> Trim(SubSeq(t, 1, c - 1)),
   rest |-> SubSeq(t, c + 1, Len(t))]

EntryOf(line, t) == EntryAt(line, t, KeyColon(t))

YamlEntry(line) == EntryOf(line, Trim(line))

ContentText(t) == Len(t) > 0 /\ t[1] # "#"

\* neither blank nor a full-line comment
IsContentLine(line) == ContentText(Trim(line))

\* the lines that carry content, as mapping entries, from line i on
RECURSIVE CollectEntries(_, _)
CollectEntries(lines, i) ==
  IF i > Len(lines) THEN <<>>
  ELSE IF IsContentLine(lines[i]) THEN <<YamlEntry(lines[i])>> \o CollectEntries(lines, i + 1)
  ELSE CollectEntries(lines, i + 1)

ContentEntries(lines) == CollectEntries(lines, 1)

BlockFailed == [ok |-> FALSE, m |-> <<>>, next |-> 0]

RECURSIVE LoadBlock(_, _, _, _)
RECURSIVE LoadEntry(_, _, _, _, _)
RECURSIVE LoadNested(_, _, _, _, _)

\* entry i opened a nested mapping, loaded as sub
LoadNested(ents, i, indent, acc, sub) ==
  IF ~sub.ok THEN BlockFailed
  ELSE LoadBlock(ents, sub.next, indent, MapSet(acc, ents[i].key, MapV(sub.m)))

\* entry i of the block, its own scalar loaded as sc
LoadEntry(ents, i, indent, acc, sc) ==
  IF ~sc.ok THEN BlockFailed
  ELSE IF i + 1 <= Len(ents) /\ ents[i + 1].indent > indent
  THEN IF sc.v.t = "null"
       THEN LoadNested(ents, i, indent, acc, LoadBlock(ents, i + 1, ents[i + 1].indent, <<>>))
       ELSE BlockFailed
  ELSE LoadBlock(ents, i + 1, indent, MapSet(acc, ents[i].key, sc.v))

\* one block mapping at a given indentation, from entry i on
LoadBlock(ents, i, indent, acc) ==
  IF i > Len(ents) \/ ents[i].indent < indent THEN [ok |-> TRUE, m |-> acc, next |-> i]
  ELSE IF ents[i].indent > indent THEN BlockFailed
  ELSE LoadEntry(ents, i, indent, acc, FailsafeScalar(ents[i].rest))

\* the document whose top block loaded as r
DocOf(ents, r) == IF r.ok /\ r.next > Len(ents) THEN Loaded(MapV(r.m)) ELSE Thrown

LoadEntries(ents) ==
  IF Len(ents) = 0 THEN Loaded(UndefV)
  ELSE IF \E i \in 1..Len(ents) : ~ents[i].entry THEN Thrown
  ELSE DocOf(ents, LoadBlock(ents, 1, ents[1].indent, <<>>))

\* yaml.load(content, {schema: FAILSAFE_SCHEMA, json: true}): duplicate keys override
YamlLoadDoc(lines) == LoadEntries(ContentEntries(lines))

(***************************************************************************)
(* YamlStructureParser                                                     *)
(***************************************************************************)
LowerLetters == <<"a", "b", "c", "d", "e", "f", "g", "h", "i", "j", "k", "l", "m",
                  "n", "o", "p", "q", "r", "s", "t", "u", "v", "w", "x", "y", "z">>
UpperLetters == <<"A", "B", "C", "D", "E", "F", "G", "H", "I", "J", "K", "L", "M",
                  "N", "O", "P", "Q", "R", "S", "T", "U", "V", "W", "X", "Y", "Z">>

ToUpperCase(c) ==
  IF \E i \in 1..26 : LowerLetters[i] = c
  THEN UpperLetters[CHOOSE i \in 1..26 : LowerLetters[i] = c]
  ELSE c

\* spaces count 1, tabs count 2, up to the first other character
RECURSIVE getIndentationLevel(_)
getIndentationLevel(line) ==
  IF Len(line) = 0 THEN 0
  ELSE IF line[1] = " " THEN 1 + getIndentationLevel(Tail(line))
  ELSE IF line[1] = "\t" THEN 2 + getIndentationLevel(Tail(line))
  ELSE 0

\* the text before the colon is a key: not empty, no space inside
KeyText(key) == Len(key) > 0 /\ ~Includes(key, " ")

\* called on the trimmed line
isYamlKeyLine(line) ==
  IF Len(line) = 0 \/ StartsWith(line, "#") THEN FALSE
  ELSE IF IndexOf(line, ":") = -1 THEN FALSE
  ELSE KeyText(Trim(Substring(line, 0, IndexOf(line, ":"))))

InlineBefore(beforeComment) == Includes(beforeComment, ":") /\ Len(Trim(beforeComment)) > 0

isInlineComment(line) == InlineBefore(Substring(line, 0, IndexOf(line, "#")))

\* each space-separated word gets its first character upper-cased
commentToHeader(comment) ==
  [i \in 1..Len(comment) |->
     IF i = 1 \/ comment[i - 1] = " " THEN ToUpperCase(comment[i]) ELSE comment[i]]

BlockWords == {<<>>, <<"|">>, <<">">>}

\* the node parseNodeFromLine returns.  comment and parentPath: <<>> stands for
\* undefined; a comment that is the empty string is <<<<>>>>
NewNode(key, value, type, line, lineNumber, comment, isStructuralParent) ==
  [key |-> key,
   value |-> value,
   type |-> type,
   level |-> getIndentationLevel(line),
   lineStart |-> lineNumber,
   lineEnd |-> lineNumber,
   comment |-> comment,
   children |-> <<>>,
   isStructuralParent |-> isStructuralParent,
   parentPath |-> <<>>]

\* loaded: what yaml.load(cleanValue) gave, or that it threw
NodeFromLoaded(line, lineNumber, key, comment, cleanValue, loaded) ==
  IF loaded.ok THEN NewNode(key, loaded.v, getValueType(loaded.v), line, lineNumber, comment, FALSE)
  ELSE NewNode(key, StrV(cleanValue), "string", line, lineNumber, comment, FALSE)

NodeFromClean(line, lineNumber, key, comment, cleanValue) ==
  IF cleanValue \in BlockWords THEN NewNode(key, NullV, "object", line, lineNumber, comment, TRUE)
  ELSE NodeFromLoaded(line, lineNumber, key, comment, cleanValue, YamlLoadScalar(cleanValue))

NodeFromHash(line, lineNumber, key, valueStr, hashIndex) ==
  IF hashIndex # -1 /\ hashIndex > 0
  THEN NodeFromClean(line, lineNumber, key, <<Trim(SubstringFrom(valueStr, hashIndex + 1))>>,
                     Trim(Substring(valueStr, 0, hashIndex)))
  ELSE NodeFromClean(line, lineNumber, key, <<>>, valueStr)

NodeFromValue(line, lineNumber, key, valueStr) ==
  NodeFromHash(line, lineNumber, key, valueStr, IndexOf(valueStr, "#"))

NodeFromColon(line, lineNumber, trimmedLine, colonIndex) ==
  NodeFromValue(line, lineNumber, Trim(Substring(trimmedLine, 0, colonIndex)),
                Trim(SubstringFrom(trimmedLine, colonIndex + 1)))

NodeFromTrimmed(line, lineNumber, trimmedLine) ==
  NodeFromColon(line, lineNumber, trimmedLine, IndexOf(trimmedLine, ":"))

\* called on lines that hold a colon
parseNodeFromLine(line, lineNumber) == NodeFromTrimmed(line, lineNumber, Trim(line))

\* parentPath ? `${parentPath}.${node.key}` : node.key
ChildPath(parentPath, key) == IF Len(parentPath) > 0 THEN parentPath \o <<".">> \o key ELSE key

\* the loop of parseNestedStructure from line i on: nodes collected so far and the
\* last line a node was taken from
RECURSIVE NestedLoop(_, _, _, _, _, _)
RECURSIVE NestedNode(_, _, _, _, _, _, _)
RECURSIVE NestedChildren(_, _, _, _, _, _, _)
RECURSIVE NestedLine(_, _, _, _, _, _, _, _)
RECURSIVE NestedTrimmed(_, _, _, _, _, _, _)

\* the node of line i is a bare parent; nestedResult is the parse of what follows it
NestedChildren(lines, i, baseIndentation, parentPath, nodes, node, nestedResult) ==
  IF Len(nestedResult.nodes) > 0
  THEN NestedLoop(lines, nestedResult.lastProcessedLine + 1, baseIndentation, parentPath,
                  Append(nodes, [node EXCEPT !.children = nestedResult.nodes]),
                  nestedResult.lastProcessedLine)
  ELSE NestedLoop(lines, i + 1, baseIndentation, parentPath, Append(nodes, node), i)

NestedNode(lines, i, baseIndentation, parentPath, nodes, indentation, node) ==
  IF node.type = "object" /\ node.isStructuralParent
  THEN NestedChildren(lines, i, baseIndentation, parentPath, nodes, node,
                      NestedLoop(lines, i + 1, indentation, ChildPath(parentPath, node.key), <<>>, i))
  ELSE NestedLoop(lines, i + 1, baseIndentation, parentPath, Append(nodes, node), i)

\* a line that is neither blank nor a comment
NestedLine(lines, i, baseIndentation, parentPath, nodes, lastProcessedLine, isKey, indentation) ==
  IF indentation <= baseIndentation /\ isKey
  THEN [nodes |-> nodes, lastProcessedLine |-> lastProcessedLine]
  ELSE IF isKey /\ indentation > baseIndentation
  THEN NestedNode(lines, i, baseIndentation, parentPath, nodes, indentation,
                  [parseNodeFromLine(lines[i + 1], i) EXCEPT !.parentPath = parentPath])
  ELSE NestedLoop(lines, i + 1, baseIndentation, parentPath, nodes, lastProcessedLine)

\* variant of the loop body in which a comment ends the nested block
NestedTrimmedEndsAtComment(lines, i, baseIndentation, parentPath, nodes, lastProcessedLine, trimmedLine) ==
  IF Len(trimmedLine) = 0
  THEN NestedLoop(lines, i + 1, baseIndentation, parentPath, nodes, lastProcessedLine)
  ELSE IF StartsWith(trimmedLine, "#")
  THEN [nodes |-> nodes, lastProcessedLine |-> lastProcessedLine]
  ELSE NestedLine(lines, i, baseIndentation, parentPath, nodes, lastProcessedLine,
                  isYamlKeyLine(trimmedLine), getIndentationLevel(lines[i + 1]))

NestedTrimmed(lines, i, baseIndentation, parentPath, nodes, lastProcessedLine, trimmedLine) ==
  IF Len(trimmedLine) = 0 \/ StartsWith(trimmedLine, "#")
  THEN NestedLoop(lines, i + 1, baseIndentation, parentPath, nodes, lastProcessedLine)
  ELSE NestedLine(lines, i, baseIndentation, parentPath, nodes, lastProcessedLine,
                  isYamlKeyLine(trimmedLine), getIndentationLevel(lines[i + 1]))

NestedLoop(lines, i, baseIndentation, parentPath, nodes, lastProcessedLine) ==
  IF i >= Len(lines) THEN [nodes |-> nodes, lastProcessedLine |-> lastProcessedLine]
  ELSE NestedTrimmed(lines, i, baseIndentation, parentPath, nodes, lastProcessedLine, Trim(lines[i + 1]))

parseNestedStructure(lines, startLine, parentPath) ==
  NestedLoop(lines, startLine + 1, getIndentationLevel(lines[startLine + 1]), parentPath, <<>>, startLine)

DefaultSection(nodes) ==
  [header |-> <<"V", "a", "r", "i", "a", "b", "l", "e", "s">>, comment |-> <<>>, lineNumber |-> 0, nodes |-> nodes]

\* variant of the flush that puts the pending nodes into the first section there is
FlushPendingFirst(sections, cur, pendingNodes) ==
  IF Len(pendingNodes) = 0 THEN sections
  ELSE IF cur > 0 THEN [sections EXCEPT ![1].nodes = @ \o pendingNodes]
  ELSE Append(sections, DefaultSection(pendingNodes))

\* pending nodes go to the current section (cur indexes it in sections, 0 when there is
\* none yet) or to a new default section
FlushPending(sections, cur, pendingNodes) ==
  IF Len(pendingNodes) = 0 THEN sections
  ELSE IF cur > 0 THEN [sections EXCEPT ![cur].nodes = @ \o pendingNodes]
  ELSE Append(sections, DefaultSection(pendingNodes))

\* the loop of extractSections from line i on
RECURSIVE SectionLoop(_, _, _, _, _)
RECURSIVE SectionChildren(_, _, _, _, _, _, _)
RECURSIVE SectionNode(_, _, _, _, _, _)
RECURSIVE SectionHeaderLine(_, _, _, _)
RECURSIVE SectionLine(_, _, _, _, _, _)

\* variant of the step after parseNestedStructure that goes on at the next line
SectionChildrenNoSkip(lines, i, sections, cur, pendingNodes, node, nestedResult) ==
  IF Len(nestedResult.nodes) > 0
  THEN SectionLoop(lines, i + 1, sections, cur,
                   Append(pendingNodes, [node EXCEPT !.children = nestedResult.nodes]))
  ELSE SectionLoop(lines, i + 1, sections, cur, Append(pendingNodes, node))

SectionChildren(lines, i, sections, cur, pendingNodes, node, nestedResult) ==
  IF Len(nestedResult.nodes) > 0
  THEN SectionLoop(lines, nestedResult.lastProcessedLine + 1, sections, cur,
                   Append(pendingNodes, [node EXCEPT !.children = nestedResult.nodes]))
  ELSE SectionLoop(lines, i + 1, sections, cur, Append(pendingNodes, node))

SectionNode(lines, i, sections, cur, pendingNodes, node) ==
  IF node.type = "object" /\ node.isStructuralParent
  THEN SectionChildren(lines, i, sections, cur, pendingNodes, node,
                       parseNestedStructure(lines, i, node.key))
  ELSE SectionLoop(lines, i + 1, sections, cur, Append(pendingNodes, node))

\* a full-line comment opens a section; flushed: the sections with the pending nodes placed
SectionHeaderLine(lines, i, flushed, comment) ==
  SectionLoop(lines, i + 1,
              Append(flushed, [header |-> commentToHeader(comment), comment |-> comment,
                               lineNumber |-> i, nodes |-> <<>>]),
              Len(flushed) + 1, <<>>)

SectionLine(lines, i, sections, cur, pendingNodes, trimmedLine) ==
  IF StartsWith(trimmedLine, "#") /\ ~isInlineComment(lines[i + 1])
  THEN SectionHeaderLine(lines, i, FlushPending(sections, cur, pendingNodes),
                         Trim(SubstringFrom(trimmedLine, 1)))
  ELSE IF isYamlKeyLine(trimmedLine)
  THEN SectionNode(lines, i, sections, cur, pendingNodes, parseNodeFromLine(lines[i + 1], i))
  ELSE SectionLoop(lines, i + 1, sections, cur, pendingNodes)

SectionLoop(lines, i, sections, cur, pendingNodes) ==
  IF i >= Len(lines) THEN FlushPending(sections, cur, pendingNodes)
  ELSE SectionLine(lines, i, sections, cur, pendingNodes, Trim(lines[i + 1]))

extractSections(lines) == SectionLoop(lines, 0, <<>>, 0, <<>>)

RECURSIVE flatten(_)
flatten(nodes) ==
  IF Len(nodes) = 0 THEN <<>>
  ELSE <<nodes[1]>> \o flatten(nodes[1].children) \o flatten(Tail(nodes))

RECURSIVE flattenNodes(_)
flattenNodes(sections) ==
  IF Len(sections) = 0 THEN <<>>
  ELSE flatten(sections[1].nodes) \o flattenNodes(Tail(sections))

\* the structure parse returns: loaded is what yaml.load gave for the whole text
ParsedStructure(lines, loaded, sections) ==
  [sections |-> sections,
   flatNodes |-> flattenNodes(sections),
   originalLines |-> lines,
   parsedData |-> IF loaded.ok /\ loaded.v.t = "object" THEN loaded.v.m ELSE <<>>]

\* parse(yamlContent); the content is given as its lines
parse(lines) == ParsedStructure(lines, YamlLoadDoc(lines), extractSections(lines))

(***************************************************************************)
(* VariableWriter                                                          *)
(***************************************************************************)
\* the first node of the list with the key, 0 if none
FirstWithKey(nodes, key) ==
  IF \E i \in 1..Len(nodes) : nodes[i].key = key
  THEN CHOOSE i \in 1..Len(nodes) : nodes[i].key = key /\ \A j \in 1..(i - 1) : nodes[j].key # key
  ELSE 0

\* the (cloned) node list after the call, and the boolean it returns
RECURSIVE updateNodesValue(_, _, _)
updateNodesValue(nodes, pathParts, newValue) ==
  LET i == FirstWithKey(nodes, pathParts[1])
      sub == updateNodesValue(nodes[i].children, Tail(pathParts), newValue)
  IN IF Len(pathParts) = 0 THEN [found |-> FALSE, nodes |-> nodes]
     ELSE IF i = 0 THEN [found |-> FALSE, nodes |-> nodes]
     ELSE IF Len(pathParts) = 1
     THEN [found |-> TRUE,
           nodes |-> [nodes EXCEPT ![i].value = newValue, ![i].type = getValueType(newValue)]]
     ELSE [found |-> sub.found, nodes |-> [nodes EXCEPT ![i].children = sub.nodes]]

\* the sections after the loop that stops at the first section where the path is found
RECURSIVE UpdateSections(_, _, _)
UpdateSections(sections, pathParts, newValue) ==
  IF Len(sections) = 0 THEN [found |-> FALSE, sections |-> <<>>]
  ELSE LET r == updateNodesValue(sections[1].nodes, pathParts, newValue)
           rest == UpdateSections(Tail(sections), pathParts, newValue)
       IN IF r.found
          THEN [found |-> TRUE, sections |-> <<[sections[1] EXCEPT !.nodes = r.nodes]>> \o Tail(sections)]
          ELSE [found |-> rest.found, sections |-> <<[sections[1] EXCEPT !.nodes = r.nodes]>> \o rest.sections]

\* the walk of updateParsedData over the object with entries data, as the object is
\* after the call; threw: an assignment hit a primitive (TypeError in a class body)
RECURSIVE updateParsedData(_, _, _)
updateParsedData(data, pathParts, newValue) ==
  LET key == pathParts[1]
      absent == ~MapHas(data, key) \/ MapGet(data, key).t \in {"null", "undefined"}
      child == IF absent THEN <<>> ELSE MapGet(data, key).m
      sub == updateParsedData(child, Tail(pathParts), newValue)
  IN IF Len(pathParts) = 1 THEN [threw |-> FALSE, data |-> MapSet(data, key, newValue)]
     ELSE IF ~absent /\ MapGet(data, key).t # "object" THEN [threw |-> TRUE, data |-> data]
     ELSE [threw |-> sub.threw, data |-> MapSet(data, key, MapV(sub.data))]

\* parsedData: { ...structure.parsedData } copies the top level only, so a nested
\* mapping reached through an existing first segment is the caller's own object
SharedParsedData(data, pathParts, updated) ==
  IF Len(pathParts) >= 2 /\ MapHas(data, pathParts[1]) /\ MapGet(data, pathParts[1]).t = "object"
  THEN MapSet(data, pathParts[1], MapGet(updated, pathParts[1]))
  ELSE data

\* cloned: the structure updateStructureValue returns; given: the caller's structure
\* after the call; threw: the call raised instead of returning
updateStructureValue(structure, variablePath, newValue) ==
  LET pathParts == Split(variablePath, ".")
      inSections == UpdateSections(structure.sections, pathParts, newValue)
      inFlat == updateNodesValue(structure.flatNodes, pathParts, newValue)
      inData == updateParsedData(structure.parsedData, pathParts, newValue)
  IN [threw |-> inData.threw,
      cloned |-> [sections |-> inSections.sections,
                  flatNodes |-> IF inSections.found THEN structure.flatNodes ELSE inFlat.nodes,
                  originalLines |-> structure.originalLines,
                  parsedData |-> inData.data],
      given |-> [structure EXCEPT !.parsedData = SharedParsedData(@, pathParts, inData.data)]]

\* the characters of /[:#@&*!|>%{}\[\],`]/ (the backquote is not a character of the model)
YamlSpecial == {":", "#", "@", "&", "*", "!", "|", ">", "%", "{", "}", "[", "]", ","}

\* str.replace(/"/g, '\\"')
RECURSIVE EscapeQuotes(_)
EscapeQuotes(str) ==
  IF Len(str) = 0 THEN <<>>
  ELSE IF str[1] = "\"" THEN <<"\\", "\"">> \o EscapeQuotes(Tail(str))
  ELSE <<str[1]>> \o EscapeQuotes(Tail(str))

formatValueForYaml(value, type, isStructuralParent) ==
  LET str == ToDisplay(value)
  IN IF isStructuralParent THEN <<>>
     ELSE CASE type = "string" ->
                 IF (\E i \in 1..Len(str) : str[i] \in YamlSpecial)
                    \/ (Len(str) > 0 /\ IsDigit(str[1]))
                    \/ Trim(str) # str
                 THEN <<"\"">> \o EscapeQuotes(str) \o <<"\"">>
                 ELSE str
            [] type \in {"number", "boolean"} -> str
            [] type = "array" -> <<"[", "]">>
            [] type = "object" -> <<"{", "}">>
            [] type = "null" -> <<"n", "u", "l", "l">>
            [] OTHER -> str

updateLineValue(originalLine, node) ==
  LET colonIndex == IndexOf(originalLine, ":")
      beforeColon == Substring(originalLine, 0, colonIndex + 1)
      afterColon == SubstringFrom(originalLine, colonIndex + 1)
      hashIndex == IndexOf(afterColon, "#")
      comment == IF hashIndex # -1 THEN SubstringFrom(afterColon, hashIndex) ELSE <<>>
      valueOnlyPart == IF hashIndex # -1 THEN Substring(afterColon, 0, hashIndex) ELSE afterColon
      newValueFormatted == formatValueForYaml(node.value, node.type, node.isStructuralParent)
      leadingSpaces == IF LeadingWhite(valueOnlyPart) = 0 THEN <<" ">>
                       ELSE SubSeq(valueOnlyPart, 1, LeadingWhite(valueOnlyPart))
  IN IF node.isStructuralParent /\ Len(node.children) > 0 THEN originalLine
     ELSE IF colonIndex = -1 THEN originalLine
     ELSE beforeColon \o leadingSpaces \o newValueFormatted \o comment

RECURSIVE updateLinesForNodes(_, _)
updateLinesForNodes(lines, nodes) ==
  IF Len(nodes) = 0 THEN lines
  ELSE LET node == nodes[1]
           own == IF node.lineStart >= 0 /\ node.lineStart < Len(lines)
                  THEN [lines EXCEPT ![node.lineStart + 1] = updateLineValue(@, node)]
                  ELSE lines
       IN updateLinesForNodes(updateLinesForNodes(own, node.children), Tail(nodes))

RECURSIVE UpdateLinesForSections(_, _)
UpdateLinesForSections(lines, sections) ==
  IF Len(sections) = 0 THEN lines
  ELSE UpdateLinesForSections(updateLinesForNodes(lines, sections[1].nodes), Tail(sections))

\* the new content, as its lines
generateYamlContent(structure, originalLines) == UpdateLinesForSections(originalLines, structure.sections)

\* Writer.updateVariable up to its call of vault.modify: what it is about to write, or the
\* failure it returns at once; given is the caller's structure as the call leaves it
WriterPrepare(fileExists, yamlStructure, variablePath, newValue) ==
  LET updated == updateStructureValue(yamlStructure, variablePath, newValue)
  IN IF ~fileExists
     THEN [outcome |-> "failed", error |-> "Variables file not found", content |-> <<>>, given |-> yamlStructure]
     ELSE IF updated.threw
     THEN [outcome |-> "failed", error |-> "TypeError", content |-> <<>>, given |-> updated.given]
     ELSE [outcome |-> "write", error |-> "", given |-> updated.given,
           content |-> generateYamlContent(updated.cloned, yamlStructure.originalLines)]

\* str.toLowerCase() on the letters
ToLowerCase(c) ==
  IF \E i \in 1..26 : UpperLetters[i] = c
  THEN LowerLetters[CHOOSE i \in 1..26 : UpperLetters[i] = c]
  ELSE c

LowerCase(str) == [i \in 1..Len(str) |-> ToLowerCase(str[i])]

\* lines.splice(insertIndex, 0, newLine); past the end it appends
Splice(lines, insertIndex, newLine) ==
  SubSeq(lines, 1, Min(insertIndex, Len(lines))) \o <<newLine>> \o SubSeq(lines, Min(insertIndex, Len(lines)) + 1, Len(lines))

\* the first section whose header matches the name without regard to case, 0 if none
FindSection(sections, sectionName) ==
  IF \E i \in 1..Len(sections) : LowerCase(sections[i].header) = LowerCase(sectionName)
  THEN CHOOSE i \in 1..Len(sections) :
         /\ LowerCase(sections[i].header) = LowerCase(sectionName)
         /\ \A j \in 1..(i - 1) : LowerCase(sections[j].header) # LowerCase(sectionName)
  ELSE 0

\* Writer.addVariable up to its call of vault.modify
AddPrepare(fileExists, yamlStructure, sectionName, key, value) ==
  LET lines == yamlStructure.originalLines
      si == FindSection(yamlStructure.sections, sectionName)
      section == yamlStructure.sections[si]
      insertIndex == IF Len(section.nodes) > 0
                     THEN section.nodes[Len(section.nodes)].lineEnd + 1
                     ELSE section.lineNumber + 1
      newLine == key \o <<":", " ">> \o formatValueForYaml(value, getValueType(value), FALSE)
  IN IF ~fileExists
     THEN [outcome |-> "failed", error |-> "Variables file not found", content |-> <<>>, given |-> yamlStructure]
     ELSE [outcome |-> "write", error |-> "", given |-> yamlStructure,
           content |-> IF si > 0 THEN Splice(lines, insertIndex, newLine)
                       ELSE lines \o << <<>>, <<"#", " ">> \o sectionName, newLine >>]

(***************************************************************************)
(* VariableCache.get                                                       *)
(***************************************************************************)
LengthName == <<"l", "e", "n", "g", "t", "h">>
\* names every object inherits (a part of Object.prototype)
InheritedNames == {<<"c", "o", "n", "s", "t", "r", "u", "c", "t", "o", "r">>,
                   <<"t", "o", "S", "t", "r", "i", "n", "g">>}

\* current[key] on a value that is neither null nor undefined
GetProperty(current, key) ==
  CASE current.t = "object" ->
         IF MapHas(current.m, key) THEN MapGet(current.m, key)
         ELSE IF key \in InheritedNames THEN FuncV ELSE UndefV
    [] current.t = "string" ->
         IF key = LengthName THEN NumV(Len(current.s))
         ELSE IF Len(key) = 1 /\ IsDigit(key[1]) /\ DigitVal(key[1]) < Len(current.s)
         THEN StrV(<<current.s[DigitVal(key[1]) + 1]>>)
         ELSE IF key \in InheritedNames THEN FuncV ELSE UndefV
    [] OTHER -> IF key \in InheritedNames THEN FuncV ELSE UndefV

RECURSIVE Descend(_, _)
Descend(current, keys) ==
  IF Len(keys) = 0 THEN current
  ELSE IF current.t \in {"null", "undefined"} THEN UndefV
  ELSE Descend(GetProperty(current, keys[1]), Tail(keys))

\* the text returned, as a string value, or undefined
getNestedValue(obj, path) ==
  LET current == Descend(obj, Split(path, "."))
  IN IF current.t \in {"null", "undefined"} THEN UndefV ELSE StrV(ToDisplay(current))

(***************************************************************************)
(* Inputs of the cache model                                               *)
(***************************************************************************)
ERROR_NOTIFICATION_COOLDOWN == 60000

\* Date.now() when the plugin loads: later than the cooldown after the epoch
InitialTime == ERROR_NOTIFICATION_COOLDOWN + 1

\* bounds
MaxTasks == 2
MaxVersion == 3
MaxMods == 2

Projects == {"docs", "site"}

ContentFlat == << <<"a", ":", " ", "x">> >>
ContentNested == << <<"n", ":">>, <<" ", " ", "k", ":", " ", "x">> >>
\* an unterminated double-quoted scalar: the document does not decode
ContentBroken == << <<"a", ":", " ", "\"", "x">> >>
Contents == {ContentFlat, ContentNested, ContentBroken}

PathA == <<"a">>
PathNK == <<"n", ".", "k">>
PathALength == <<"a", ".", "l", "e", "n", "g", "t", "h">>
PathNQ == <<"n", ".", "q">>
PathQ == <<"q">>
\* the paths written to and the keys looked up
WritePaths == {PathA, PathNK}
LookupKeys == {PathA, PathNK, PathALength, PathNQ, PathQ, <<"n">>}
WriteValues == {StrV(<<"y">>), StrV(<<>>)}
SectionNames == {<<"V", "a", "r", "i", "a", "b", "l", "e", "s">>}
AddKeys == {<<"b">>}
AddValues == {StrV(<<"y">>)}
OneProject == {"docs"}

(***************************************************************************)
(* State of the cache and of its environment                               *)
(***************************************************************************)
VARIABLES
  file,            \* per project: the data file in the vault (exists, lines, mtime)
  cache,           \* VariableCache.cache: per project <<>> or <<CacheEntry>>
  structureCache,  \* VariableCache.structureCache: per project <<>> or <<ParsedYamlStructure>>
  version,         \* VariableCache.version
  fileWatcher,     \* VariableCache.fileWatcher is registered
  tasks,           \* the asynchronous calls in flight, each at its await
  recording,       \* history: whether the returns of calls are recorded
  lastDone,        \* history: the call that returned last
  prevDone,        \* history: the call that returned before it
  now,             \* Date.now()
  lastErrorNotified, \* VariableCache.lastErrorNotified: per project the time of its last notice, 0 if none
  notices,         \* history: per project the times of its last two notices (0: none)
  editor,          \* the host of one editor view: active file, document, selection head, settings,
                   \* and whether the view plugin was destroyed
  renderer,        \* the fields of the view's PlaceholderRenderer
  engineLog,       \* history: what the last step of the renderer did
  scanning         \* a PlaceholderScanner used by itself: the text at hand and the last call made

noteVars == <<now, lastErrorNotified, notices>>

viewVars == <<editor, renderer, engineLog, scanning>>

vars == <<file, cache, structureCache, version, fileWatcher, tasks, recording, lastDone, prevDone,
          now, lastErrorNotified, notices, editor, renderer, engineLog, scanning>>

MissingFile == [exists |-> FALSE, lines |-> <<>>, mtime |-> 0]

\* owner: "view" for a load begun by the renderer's loadVariablesInBackground
NoTask == [kind |-> "none", proj |-> "", owner |-> "", pc |-> "idle", content |-> <<>>, readOk |-> FALSE,
           evicted |-> FALSE, newContent |-> <<>>, path |-> <<>>, value |-> UndefV,
           reads |-> 0, ver0 |-> 0, snapE |-> <<>>, snapS |-> <<>>]

NoDone == [kind |-> "none", proj |-> "", ret |-> <<>>, success |-> FALSE, error |-> "",
           path |-> <<>>, value |-> UndefV, reads |-> 0, ver0 |-> 0, ver1 |-> 0,
           snapE |-> <<>>, snapS |-> <<>>]

\* tasks lists the calls in flight in the order they began
Running == DOMAIN tasks

Quiet == tasks = <<>>

HasFree == Len(tasks) < MaxTasks

\* the list without its t-th call
Remove(tk, t) == SubSeq(tk, 1, t - 1) \o SubSeq(tk, t + 1, Len(tk))

\* cache.get(projectInfo.root)
Cached(p) == cache[p] # <<>>

\* the data file of a project holds one of the contents or is missing
FileStates(contents) == {[exists |-> TRUE, lines |-> c, mtime |-> 0] : c \in contents} \cup {MissingFile}

\* a new VariableCache(app) followed by initialize(), as the plugin builds it on load;
\* the projects of ps have a data file or lack it, the others lack it
InitStore(ps, rec, contents) ==
  /\ file \in {f \in [Projects -> FileStates(contents)] : \A p \in Projects \ ps : f[p] = MissingFile}
  /\ recording = rec
  /\ cache = [p \in Projects |-> <<>>]
  /\ structureCache = [p \in Projects |-> <<>>]
  /\ version = 0
  /\ fileWatcher = TRUE
  /\ tasks = <<>>
  /\ lastDone = NoDone
  /\ prevDone = NoDone
  /\ now = InitialTime
  /\ lastErrorNotified = [p \in Projects |-> 0]
  /\ notices = [p \in Projects |-> <<0, 0>>]

\* what a call notes for the history when its returns are recorded
Noted(x, none) == IF recording THEN x ELSE none

\* a call returned: it becomes the last one of the history
Returned(d) ==
  /\ lastDone' = IF recording THEN d ELSE NoDone
  /\ prevDone' = IF lastDone.kind = "load" THEN lastDone ELSE NoDone
  /\ UNCHANGED recording

\* loadVariables is called and has to wait: of the history only a load that returned
\* just before is kept
LoadBegun ==
  /\ lastDone' = IF lastDone.kind = "load" THEN lastDone ELSE NoDone
  /\ prevDone' = NoDone
  /\ UNCHANGED recording

\* a step that returns from no call leaves the history as it is
HistoryKept == UNCHANGED <<recording, lastDone, prevDone>>

\* something other than a call happened: the history starts over
HistoryReset == lastDone' = NoDone /\ prevDone' = NoDone /\ UNCHANGED recording

\* a live iterator of reloadForFile over cache.entries() sees again a key that is
\* deleted and set again behind it: a reload waiting on p notes the deletion
MarkEvicted(tk, ps) ==
  [t \in DOMAIN tk |-> IF tk[t].kind = "reload" /\ tk[t].proj \in ps /\ Cached(tk[t].proj)
                   THEN [tk[t] EXCEPT !.evicted = TRUE] ELSE tk[t]]

\* get(projectInfo, key)
get(p, key) == IF ~Cached(p) THEN UndefV ELSE getNestedValue(cache[p][1].data, key)

\* what the code after `await vault.read(file)` builds from the content read
Decoded(content) ==
  LET loaded == YamlLoadDoc(content)
  IN [ok |-> loaded.ok, data |-> IF loaded.ok /\ loaded.v.t = "object" THEN loaded.v ELSE MapV(<<>>)]

\* the entry a post-increment (`version: this.version++`) would build: it carries the
\* counter of before the store
NewEntryPostIncrement(p, content) ==
  [data |-> Decoded(content).data, version |-> version, lastModified |-> file[p].mtime]

\* the entry built with `version: ++this.version`
NewEntry(p, content) ==
  [data |-> Decoded(content).data, version |-> version + 1, lastModified |-> file[p].mtime]

\* the read succeeded and the content decoded: the statements after the await reach cache.set
Stores(readOk, content) == readOk /\ Decoded(content).ok

\* a notice for p is shown and its time kept
Notice(p) ==
  /\ lastErrorNotified' = [lastErrorNotified EXCEPT ![p] = now]
  /\ notices' = [notices EXCEPT ![p] = <<@[2], now>>]
  /\ UNCHANGED now

\* notifyError without the test of the cooldown
notifyErrorAlways(p) == Notice(p)

\* notifyError(projectRoot, message): lastNotified is the time kept, or 0
notifyError(p) ==
  IF now - lastErrorNotified[p] > ERROR_NOTIFICATION_COOLDOWN THEN Notice(p)
  ELSE UNCHANGED noteVars

(***************************************************************************)
(* PlaceholderScanner: /\{\{\s*<\s*var\s+([a-zA-Z0-9_.]+)\s*>\s*\}\}/g     *)
(***************************************************************************)
\* the character at a 1-based index, "" past the end
CharAt(text, i) == IF i \in 1..Len(text) THEN text[i] ELSE ""

\* the index of the first character from i on that is not white (the end of \s*)
SkipWhite(text, i) == i + LeadingWhite(SubSeq(text, i, Len(text)))

\* [a-zA-Z0-9_.]
IsKeyChar(c) ==
  \/ \E i \in 1..Len(LowerLetters) : LowerLetters[i] = c \/ UpperLetters[i] = c
  \/ IsDigit(c)
  \/ c \in {"_", "."}

\* the index after the key characters that begin at i
RECURSIVE KeyEnd(_, _)
KeyEnd(text, i) == IF IsKeyChar(CharAt(text, i)) THEN KeyEnd(text, i + 1) ELSE i

NoMatch == [ok |-> FALSE, end |-> 0, key |-> <<>>]

\* \}\} at j: the match ends
MatchClose(text, key, j) ==
  IF CharAt(text, j) = "}" /\ CharAt(text, j + 1) = "}"
  THEN [ok |-> TRUE, end |-> j + 2, key |-> key] ELSE NoMatch

\* > at j, then \s*
MatchAngle(text, key, j) ==
  IF CharAt(text, j) = ">" THEN MatchClose(text, key, SkipWhite(text, j + 1)) ELSE NoMatch

\* the key text[j..k-1] (one character at least), then \s*
MatchKey(text, j, k) ==
  IF k > j THEN MatchAngle(text, SubSeq(text, j, k - 1), SkipWhite(text, k)) ELSE NoMatch

\* \s+ is text[j..k-1] (one character at least)
MatchSpace(text, j, k) == IF k > j THEN MatchKey(text, k, KeyEnd(text, k)) ELSE NoMatch

\* var at j
MatchVar(text, j) ==
  IF CharAt(text, j) = "v" /\ CharAt(text, j + 1) = "a" /\ CharAt(text, j + 2) = "r"
  THEN MatchSpace(text, j + 3, SkipWhite(text, j + 3)) ELSE NoMatch

\* < at j, then \s*
MatchOpen(text, j) ==
  IF CharAt(text, j) = "<" THEN MatchVar(text, SkipWhite(text, j + 1)) ELSE NoMatch

\* the regular expression tried at index i: \{\{ then \s*
MatchAt(text, i) ==
  IF CharAt(text, i) = "{" /\ CharAt(text, i + 1) = "{"
  THEN MatchOpen(text, SkipWhite(text, i + 2)) ELSE NoMatch

\* the loop of compiledRegex.exec: after a match the search goes on at its end
RECURSIVE ScanFrom(_, _, _)
RECURSIVE ScanStep(_, _, _, _)
ScanStep(text, offset, i, m) ==
  IF m.ok
  THEN <<[from |-> offset + i - 1, to |-> offset + m.end - 1, key |-> m.key]>>
       \o ScanFrom(text, offset, m.end)
  ELSE ScanFrom(text, offset, i + 1)

ScanFrom(text, offset, i) ==
  IF i > Len(text) THEN <<>> ELSE ScanStep(text, offset, i, MatchAt(text, i))

\* findAll(text, offset): the matches in order, offsets 0-based, to exclusive
findAll(text, offset) == ScanFrom(text, offset, 1)

\* key.endsWith('.')
EndsWith(s, c) == Len(s) > 0 /\ s[Len(s)] = c

\* key.includes('..')
IncludesTwice(s, c) == \E i \in 1..(Len(s) - 1) : s[i] = c /\ s[i + 1] = c

\* static isValidKey(key)
isValidKey(key) ==
  /\ Len(key) > 0
  /\ \A i \in 1..Len(key) : IsKeyChar(key[i])
  /\ ~StartsWith(key, ".") /\ ~EndsWith(key, ".") /\ ~IncludesTwice(key, ".")

\* text.charCodeAt(i) for the characters of the texts of the model
CharCode(c) ==
  IF \E i \in 1..26 : LowerLetters[i] = c THEN 96 + (CHOOSE i \in 1..26 : LowerLetters[i] = c)
  ELSE IF \E i \in 1..26 : UpperLetters[i] = c THEN 64 + (CHOOSE i \in 1..26 : UpperLetters[i] = c)
  ELSE IF IsDigit(c) THEN 48 + DigitVal(c)
  ELSE CASE c = "\t" -> 9 [] c = " " -> 32 [] c = "\"" -> 34 [] c = "#" -> 35 [] c = "-" -> 45
         [] c = "." -> 46 [] c = ":" -> 58 [] c = "<" -> 60 [] c = ">" -> 62 [] c = "\\" -> 92
         [] c = "^" -> 94 [] c = "_" -> 95 [] c = "{" -> 123 [] c = "|" -> 124 [] c = "}" -> 125
         [] c = "~" -> 126

\* hash = ((hash << 5) - hash) + char; hash = hash & hash: 31 * hash + char in 32 bits,
\* kept as its two halves of 16 bits
HashStep(hash, low) == [hi |-> (31 * hash.hi + low \div 65536) % 65536, lo |-> low % 65536]

RECURSIVE HashFrom(_, _, _)
HashFrom(text, i, hash) ==
  IF i > Len(text) THEN hash
  ELSE HashFrom(text, i + 1, HashStep(hash, 31 * hash.lo + CharCode(text[i])))

\* simpleHash(text); hash.toString() tells the 32-bit values apart
simpleHash(text) == HashFrom(text, 1, [hi |-> 0, lo |-> 0])

\* `${from}-${to}`
CacheKey(from, to) == NatToDigits(from) \o <<"-">> \o NatToDigits(to)

\* Array.from(map.keys()).slice(0, n)
FirstKeys(m, n) == {m[i][1] : i \in 1..Min(n, Len(m))}

\* Array.from(map.keys()).slice(-n)
LastKeys(m, n) == {m[i][1] : i \in (Len(m) - Min(n, Len(m)) + 1)..Len(m)}

\* keysToDelete.forEach(key => { lastScanResults.delete(key); lastScanHash.delete(key) })
DeleteKeys(sc, keys) ==
  [lastScanResults |-> SelectSeq(sc.lastScanResults, LAMBDA e : e[1] \notin keys),
   lastScanHash |-> SelectSeq(sc.lastScanHash, LAMBDA e : e[1] \notin keys)]

\* a new PlaceholderScanner: both maps empty; a map is the list of its <<key, value>>
\* entries in insertion order
NewScanner == [lastScanResults |-> <<>>, lastScanHash |-> <<>>]

\* variant of cleanupCache that deletes the keys inserted last
cleanupCacheNewest(sc) ==
  IF Len(sc.lastScanResults) > 10 THEN DeleteKeys(sc, LastKeys(sc.lastScanResults, 5)) ELSE sc

\* cleanupCache()
cleanupCache(sc) ==
  IF Len(sc.lastScanResults) > 10 THEN DeleteKeys(sc, FirstKeys(sc.lastScanResults, 5)) ELSE sc

\* the scan of findAllInRange done: both maps are set, then cleaned
ScanStored(sc, cacheKey, textHash, matches) ==
  [matches |-> matches,
   scanner |-> cleanupCache([lastScanResults |-> MapSet(sc.lastScanResults, cacheKey, matches),
                             lastScanHash |-> MapSet(sc.lastScanHash, cacheKey, textHash)])]

\* findAllInRange once the text is sliced and hashed: the memo answers when the hash kept
\* for the range is the hash of the text
RangeScan(sc, text, from, cacheKey, textHash) ==
  IF /\ MapHas(sc.lastScanHash, cacheKey) /\ MapGet(sc.lastScanHash, cacheKey) = textHash
     /\ MapHas(sc.lastScanResults, cacheKey)
  THEN [matches |-> MapGet(sc.lastScanResults, cacheKey), scanner |-> sc]
  ELSE ScanStored(sc, cacheKey, textHash, findAll(text, from))

RangeText(sc, text, from, to) == RangeScan(sc, text, from, CacheKey(from, to), simpleHash(text))

\* findAllInRange(view, from, to) on the scanner sc: the matches returned and the scanner
\* as the call leaves it
findAllInRange(sc, doc, from, to) == RangeText(sc, Substring(doc, from, to), from, to)

\* clearCache()
clearCache(sc) == NewScanner

(***************************************************************************)
(* ProjectResolver                                                         *)
(***************************************************************************)
\* no project (null)
NoProject == ""

\* no file (null)
NoFile == [name |-> "", extension |-> "", parent |-> <<>>]

\* the vault: each project's root folder holds a _quarto.yml, the vault root holds none
ProjectFolder == [p \in Projects |-> <<p>>]

\* the while loop of findProjectRoot from the folder currentPath upwards
RECURSIVE WalkUp(_)
WalkUp(currentPath) ==
  IF currentPath = <<>> THEN NoProject
  ELSE IF \E p \in Projects : ProjectFolder[p] = currentPath
  THEN CHOOSE p \in Projects : ProjectFolder[p] = currentPath
  ELSE WalkUp(SubSeq(currentPath, 1, Len(currentPath) - 1))

findProjectRoot(f) == WalkUp(f.parent)

\* getProjectRoot(file).  The resolver's memo per file path gives what the walk gives
\* while no _quarto.yml is created or removed; it resolves without leaving the microtask
\* queue
getProjectRoot(f) == findProjectRoot(f)

(***************************************************************************)
(* PlaceholderRenderer: the functions of its fields                        *)
(***************************************************************************)
\* `{{<var ${match.key}>}}`
RawToken(key) == <<"{", "{", "<", "v", "a", "r", " ">> \o key \o <<">", "}", "}">>

\* new VariableWidget(value, settings, isResolved)
Widget(value, isResolved) == [value |-> value, isResolved |-> isResolved]

\* builder.add(match.from, match.to, Decoration.replace({ widget }))
Deco(match, widget) == [from |-> match.from, to |-> match.to, key |-> match.key, widget |-> widget]

\* this.variableCache.get(this.currentProject, match.key) on the cache map c
GetIn(c, p, key) == IF c[p] = <<>> THEN UndefV ELSE getNestedValue(c[p][1].data, key)

\* a match outside the cursor, in a project: value is what get returned
DecorationFor(match, value, highlight) ==
  IF value.t # "undefined" THEN <<Deco(match, Widget(value.s, TRUE))>>
  ELSE IF highlight THEN <<Deco(match, Widget(RawToken(match.key), FALSE))>>
  ELSE <<>>

\* variant of the loop body that keeps a match whose end the cursor touches
MatchDecorationOpenEnd(match, cursorPos, currentProject, c, highlight) ==
  IF cursorPos >= match.from /\ cursorPos < match.to THEN <<>>
  ELSE IF currentProject = NoProject THEN <<Deco(match, Widget(RawToken(match.key), FALSE))>>
  ELSE DecorationFor(match, GetIn(c, currentProject, match.key), highlight)

\* variant of the loop body that drops the matches of a view with no project
MatchDecorationDropsNoProject(match, cursorPos, currentProject, c, highlight) ==
  IF cursorPos >= match.from /\ cursorPos <= match.to THEN <<>>
  ELSE IF currentProject = NoProject THEN <<>>
  ELSE DecorationFor(match, GetIn(c, currentProject, match.key), highlight)

\* the body of the loop of buildDecorations: the decoration of one match, <<>> if none
MatchDecoration(match, cursorPos, currentProject, c, highlight) ==
  IF cursorPos >= match.from /\ cursorPos <= match.to THEN <<>>
  ELSE IF currentProject = NoProject THEN <<Deco(match, Widget(RawToken(match.key), FALSE))>>
  ELSE DecorationFor(match, GetIn(c, currentProject, match.key), highlight)

Elements(seq) == {seq[j] : j \in DOMAIN seq}

DecorationsOf(matches, cursorPos, currentProject, c, highlight) ==
  UNION {Elements(MatchDecoration(matches[i], cursorPos, currentProject, c, highlight)) :
           i \in DOMAIN matches}

IsQmd(f) == f.name # "" /\ f.extension = "qmd"

\* the loop of buildDecorations over the matches the scanner returned
Built(scan, r, ed, c) ==
  [decorations |-> DecorationsOf(scan.matches, ed.cursor, r.currentProject, c, ed.highlight),
   scanner |-> scan.scanner]

\* buildDecorations(): the decoration set, and the scanner as the scan of the viewport
\* leaves it
buildDecorations(r, ed, c) ==
  IF ~IsQmd(ed.file) THEN [decorations |-> {}, scanner |-> r.scanner]
  ELSE Built(findAllInRange(r.scanner, ed.doc, ed.from, ed.to), r, ed, c)

\* this.currentProject && this.variableCache.getCachedEntry(this.currentProject)
IsCached(c, p) == p # NoProject /\ c[p] # <<>>

\* a timer handle: "none" (null), "armed", or "cleared" (a handle whose timeout was cleared)
\* if (timer !== null) window.clearTimeout(timer)
ClearTimer(t) == IF t = "none" THEN "none" ELSE "cleared"

\* this.decorations = this.buildDecorations(), built being what buildDecorations gave
RebuiltWith(r, ver, built) ==
  [r EXCEPT !.cacheVersion = ver, !.decorations = built.decorations, !.scanner = built.scanner]

\* the end of rebuildDecorations, the project being settled
Rebuilt(r, ed, c, ver) == RebuiltWith(r, ver, buildDecorations(r, ed, c))

\* rebuildDecorations() without its call of loadVariablesInBackground
rebuildDecorations(r, ed, c, ver) ==
  IF ~IsQmd(ed.file) THEN [r EXCEPT !.decorations = {}]
  ELSE Rebuilt([r EXCEPT !.currentProject = IF @ = NoProject THEN getProjectRoot(ed.file) ELSE @],
               ed, c, ver)

\* lastUpdate as constructed and as executeRebuild leaves it
NoUpdate == [docChanged |-> FALSE, viewportChanged |-> FALSE, selectionSet |-> FALSE]

\* variant of the start of executeRebuild that leaves the memo of the scanner alone
ScannerKept(r) == r

\* if (this.lastUpdate.viewportChanged && !this.lastUpdate.docChanged) this.scanner.clearCache()
ScannerForRebuild(r) ==
  IF r.lastUpdate.viewportChanged /\ ~r.lastUpdate.docChanged
  THEN [r EXCEPT !.scanner = clearCache(@)] ELSE r

\* executeRebuild()
executeRebuild(r, ed, c, ver) ==
  [rebuildDecorations(ScannerForRebuild(r), ed, c, ver) EXCEPT !.lastUpdate = NoUpdate]

\* the immediate branch once both timers are cleared
ScheduleImmediate(r, ed, c, ver) ==
  IF IsCached(c, r.currentProject) THEN executeRebuild(r, ed, c, ver)
  ELSE [r EXCEPT !.debounceTimer = "armed"]

\* scheduleRebuild(type)
scheduleRebuild(r, type, ed, c, ver) ==
  IF type = "scroll" THEN [r EXCEPT !.scrollDebounceTimer = "armed"]
  ELSE ScheduleImmediate([r EXCEPT !.debounceTimer = ClearTimer(@), !.scrollDebounceTimer = "none"],
                         ed, c, ver)

\* a rebuild of the renderer r calls loadVariablesInBackground: r is the renderer after
\* rebuildDecorations
NeedsLoad(r, ed, c) == IsQmd(ed.file) /\ r.currentProject # NoProject /\ c[r.currentProject] = <<>>

\* no update of the last step of the renderer
NoLog == [kind |-> "none", timer |-> "", docChanged |-> FALSE, selectionSet |-> FALSE, viewportChanged |-> FALSE,
          cacheChanged |-> FALSE, cached |-> FALSE, ran |-> FALSE, entry |-> FALSE]

\* an editor view is opened and its PlaceholderRenderer constructed: the fields as
\* initialized, decorations = buildDecorations() with no current project yet
NewRendererWith(built) ==
  [cacheVersion |-> 0, currentProject |-> NoProject, debounceTimer |-> "none",
   scrollDebounceTimer |-> "none", lastUpdate |-> NoUpdate,
   decorations |-> built.decorations, scanner |-> built.scanner]

NewRenderer(ed, c) ==
  NewRendererWith(buildDecorations([currentProject |-> NoProject, scanner |-> NewScanner], ed, c))

\* no scanner is used outside the view
NoScanning == [call |-> "none", parts |-> <<>>, text |-> <<>>, matches |-> <<>>,
               scanner |-> NewScanner, from |-> 0, to |-> 0, calls |-> 0]

\* the editor view: the active file is one of files, its document one of docs, the
\* selection head one of cursors, settings.highlightUnresolvedVariables one of highlights
InitEditor(files, docs, cursors, highlights) ==
  /\ editor \in {[file |-> f, doc |-> d, from |-> 0, to |-> Len(d), cursor |-> k, highlight |-> h,
                   events |-> 0, destroyed |-> FALSE] :
                    f \in files, d \in docs, k \in cursors, h \in highlights}
  /\ renderer = NewRenderer(editor, [p \in Projects |-> <<>>])
  /\ engineLog = [NoLog EXCEPT !.kind = "new", !.ran = TRUE]
  /\ scanning = NoScanning

\* the plugin loaded with no document open in the editor
InitCache(ps, rec, contents) ==
  /\ InitStore(ps, rec, contents)
  /\ InitEditor({NoFile}, {<<>>}, {0}, {FALSE})

(***************************************************************************)
(* VariableCache: the calls and the steps that resume them                 *)
(***************************************************************************)
LoadDone(p, ret, reads, ver0, ver1) ==
  [NoDone EXCEPT !.kind = "load", !.proj = p, !.ret = ret, !.success = ret # <<>>,
                 !.reads = reads, !.ver0 = ver0, !.ver1 = ver1]

\* loadVariables(projectInfo) up to its first await, called by owner
loadVariables(p, owner) ==
  /\ UNCHANGED <<file, cache, structureCache, version, fileWatcher>>
  /\ IF Cached(p)
     THEN /\ Returned(LoadDone(p, cache[p], 0, version, version))
          /\ UNCHANGED <<tasks, noteVars>>
     ELSE IF ~file[p].exists
     THEN /\ Returned(LoadDone(p, <<>>, 0, version, version))
          /\ notifyError(p)
          /\ UNCHANGED tasks
     ELSE /\ HasFree
          /\ tasks' = Append(tasks,
                         [NoTask EXCEPT !.kind = "load", !.proj = p, !.owner = owner, !.pc = "read",
                                        !.reads = Noted(1, 0), !.ver0 = Noted(version, 0)])
          /\ LoadBegun
          /\ UNCHANGED noteVars

\* loadVariables(projectInfo) called by the plugin or a pane
LoadCall(p) ==
  /\ fileWatcher
  /\ loadVariables(p, "")
  /\ UNCHANGED viewVars

\* vault.read takes the content of the file at some moment of the await
ReadSample(t) ==
  /\ tasks[t].pc = "read"
  /\ tasks' = [tasks EXCEPT ![t].pc = "sampled",
                            ![t].content = file[tasks[t].proj].lines,
                            ![t].readOk = file[tasks[t].proj].exists]
  /\ UNCHANGED <<file, cache, structureCache, version, fileWatcher>>
  /\ HistoryKept
  /\ UNCHANGED <<noteVars, viewVars>>

\* the statements after the await without the final cache.set: the structure is kept and
\* the counter raised, the entry is dropped
StoreLoadedNoSet(p, readOk, content) ==
  /\ structureCache' = IF readOk THEN [structureCache EXCEPT ![p] = <<parse(content)>>]
                       ELSE structureCache
  /\ IF Stores(readOk, content)
     THEN /\ version < MaxVersion
          /\ version' = version + 1
          /\ UNCHANGED <<cache, noteVars>>
     ELSE UNCHANGED <<version, cache>> /\ notifyError(p)

\* variant of the statements after the await whose catch keeps an entry without data for
\* the project
StoreLoadedKeepsFailure(p, readOk, content) ==
  /\ structureCache' = IF readOk THEN [structureCache EXCEPT ![p] = <<parse(content)>>]
                       ELSE structureCache
  /\ IF Stores(readOk, content)
     THEN /\ version < MaxVersion
          /\ version' = version + 1
          /\ cache' = [cache EXCEPT ![p] = <<NewEntry(p, content)>>]
          /\ UNCHANGED noteVars
     ELSE /\ cache' = [cache EXCEPT ![p] = <<[data |-> MapV(<<>>), version |-> version,
                                              lastModified |-> file[p].mtime]>>]
          /\ UNCHANGED version
          /\ notifyError(p)

\* the statements after `await vault.read(file)`: structureCache.set, yaml.load, cache.set,
\* or the catch with its notifyError
StoreLoaded(p, readOk, content) ==
  /\ structureCache' = IF readOk THEN [structureCache EXCEPT ![p] = <<parse(content)>>]
                       ELSE structureCache
  /\ IF Stores(readOk, content)
     THEN /\ version < MaxVersion
          /\ version' = version + 1
          /\ cache' = [cache EXCEPT ![p] = <<NewEntry(p, content)>>]
          /\ UNCHANGED noteVars
     ELSE UNCHANGED <<version, cache>> /\ notifyError(p)

\* loadVariablesInBackground resumes after `await loadVariables`, which left the cache
\* map c and the counter ver: this.scheduleRebuild()
BackgroundLoaded(entry, c, ver) ==
  /\ renderer' = scheduleRebuild(renderer, "immediate", editor, c, ver)
  /\ engineLog' = [NoLog EXCEPT !.kind = "loaded", !.entry = entry,
                                !.cached = IsCached(c, renderer.currentProject),
                                !.ran = IsCached(c, renderer.currentProject)]
  /\ UNCHANGED <<editor, scanning>>

\* loadVariables resumes after its read and returns; a call of loadVariablesInBackground
\* resumes with it
LoadResolve(t) ==
  LET tk == tasks[t]
  IN /\ tk.kind = "load" /\ tk.pc = "sampled"
     /\ StoreLoaded(tk.proj, tk.readOk, tk.content)
     /\ tasks' = Remove(tasks, t)
     /\ Returned(LoadDone(tk.proj,
                           IF Stores(tk.readOk, tk.content) THEN <<NewEntry(tk.proj, tk.content)>> ELSE <<>>,
                           tk.reads, tk.ver0, version'))
     /\ UNCHANGED <<file, fileWatcher>>
     /\ IF tk.owner = "view"
        THEN BackgroundLoaded(Stores(tk.readOk, tk.content), cache', version')
        ELSE UNCHANGED viewVars

ReloadTask(p) == [NoTask EXCEPT !.kind = "reload", !.proj = p, !.pc = "read"]

\* the 'modify' handler up to its first await: reloadForFile reads for the entry of the
\* cache whose path is the file's
ModifyEvent(tk, p) ==
  IF fileWatcher /\ Cached(p)
  THEN /\ Len(tk) < MaxTasks
       /\ tasks' = Append(tk, ReloadTask(p))
  ELSE tasks' = tk

\* the data file is changed outside the plugin; the vault raises 'modify'
ExternalModify(p, c) ==
  /\ fileWatcher
  /\ file[p].exists /\ file[p].mtime < MaxMods
  /\ c # file[p].lines
  /\ file' = [file EXCEPT ![p].lines = c, ![p].mtime = @ + 1]
  /\ ModifyEvent(tasks, p)
  /\ HistoryReset
  /\ UNCHANGED <<cache, structureCache, version, fileWatcher>>
  /\ UNCHANGED <<noteVars, viewVars>>

\* reloadForFile resumes after its read; the loop over cache.entries() goes on
ReloadResolve(t) ==
  LET tk == tasks[t]
      stored == Stores(tk.readOk, tk.content)
      again == tk.evicted /\ (stored \/ Cached(tk.proj))
  IN /\ tk.kind = "reload" /\ tk.pc = "sampled"
     /\ StoreLoaded(tk.proj, tk.readOk, tk.content)
     /\ tasks' = IF again
                 THEN [tasks EXCEPT ![t] = [tk EXCEPT !.pc = "read", !.evicted = FALSE, !.content = <<>>,
                                                      !.readOk = FALSE]]
                 ELSE Remove(tasks, t)
     /\ UNCHANGED <<file, fileWatcher>>
     /\ HistoryKept
     /\ UNCHANGED viewVars

WriteDone(kind, p, path, value, success, error, ver0, snapE, snapS) ==
  [NoDone EXCEPT !.kind = kind, !.proj = p, !.path = path, !.value = value, !.success = success,
                 !.error = error, !.ver0 = ver0, !.ver1 = version', !.snapE = snapE, !.snapS = snapS]

\* updateVariable / addVariable of the cache up to the await of vault.modify; prep is
\* what the writer prepared from the cached structure
WriteCall(kind, p, path, value, prep) ==
  /\ structureCache' = [structureCache EXCEPT ![p] = <<prep.given>>]
  /\ UNCHANGED <<file, cache, version, fileWatcher>>
  /\ UNCHANGED <<noteVars, viewVars>>
  /\ IF prep.outcome = "failed"
     THEN /\ Returned(WriteDone(kind, p, path, value, FALSE, prep.error, version, cache[p], structureCache[p]))
          /\ UNCHANGED tasks
     ELSE /\ HasFree
          /\ tasks' = Append(tasks,
                         [NoTask EXCEPT !.kind = kind, !.proj = p, !.pc = "modify",
                                        !.newContent = prep.content, !.path = path, !.value = value,
                                        !.ver0 = Noted(version, 0), !.snapE = Noted(cache[p], <<>>),
                                        !.snapS = Noted(structureCache[p], <<>>)])
          /\ HistoryReset

NoStructure(kind, p, path, value) ==
  /\ UNCHANGED <<file, cache, structureCache, version, fileWatcher, tasks>>
  /\ UNCHANGED <<noteVars, viewVars>>
  /\ Returned(WriteDone(kind, p, path, value, FALSE, "No structure cached for project", version, cache[p], <<>>))

\* VariableCache.updateVariable(projectInfo, variablePath, newValue)
UpdateCall(p, path, value) ==
  /\ fileWatcher
  /\ IF structureCache[p] = <<>> THEN NoStructure("update", p, path, value)
     ELSE WriteCall("update", p, path, value, WriterPrepare(file[p].exists, structureCache[p][1], path, value))

\* VariableCache.addVariable(projectInfo, sectionName, key, value)
AddCall(p, sectionName, key, value) ==
  /\ fileWatcher
  /\ IF structureCache[p] = <<>> THEN NoStructure("add", p, key, value)
     ELSE WriteCall("add", p, key, value, AddPrepare(file[p].exists, structureCache[p][1], sectionName, key, value))

\* vault.modify replaces the content; the vault raises 'modify'
WriteApply(t) ==
  LET tk == tasks[t]
  IN /\ tk.pc = "modify"
     /\ file[tk.proj].exists /\ file[tk.proj].mtime < MaxMods
     /\ file' = [file EXCEPT ![tk.proj].lines = tk.newContent, ![tk.proj].mtime = @ + 1]
     /\ ModifyEvent([tasks EXCEPT ![t].pc = "modified"], tk.proj)
     /\ UNCHANGED <<cache, structureCache, version, fileWatcher>>
     /\ HistoryKept
     /\ UNCHANGED <<noteVars, viewVars>>

\* vault.modify rejects: the writer catches and returns the failure
WriteFail(t) ==
  LET tk == tasks[t]
  IN /\ tk.pc = "modify"
     /\ tasks' = Remove(tasks, t)
     /\ UNCHANGED <<file, cache, structureCache, version, fileWatcher>>
     /\ UNCHANGED <<noteVars, viewVars>>
     /\ Returned(WriteDone(tk.kind, tk.proj, tk.path, tk.value, FALSE, "write failed", tk.ver0, tk.snapE, tk.snapS))

\* the cache resumes after the writer's success: both entries are deleted and
\* loadVariables is called
WriteResume(t) ==
  LET tk == tasks[t]
      p == tk.proj
      evictedTasks == MarkEvicted(tasks, {p})
  IN /\ tk.pc = "modified"
     /\ cache' = [cache EXCEPT ![p] = <<>>]
     /\ structureCache' = [structureCache EXCEPT ![p] = <<>>]
     /\ UNCHANGED <<file, version, fileWatcher>>
     /\ UNCHANGED viewVars
     /\ IF file[p].exists
        THEN /\ tasks' = [evictedTasks EXCEPT ![t].pc = "read", ![t].reads = Noted(1, 0)]
             /\ HistoryKept
             /\ UNCHANGED noteVars
        ELSE /\ tasks' = Remove(evictedTasks, t)
             /\ notifyError(p)
             /\ Returned(WriteDone(tk.kind, p, tk.path, tk.value, TRUE, "", tk.ver0, tk.snapE, tk.snapS))

\* the reload inside updateVariable / addVariable ends; the call returns the writer's result
WriteFinish(t) ==
  LET tk == tasks[t]
  IN /\ tk.kind \in {"update", "add"} /\ tk.pc = "sampled"
     /\ StoreLoaded(tk.proj, tk.readOk, tk.content)
     /\ tasks' = Remove(tasks, t)
     /\ Returned(WriteDone(tk.kind, tk.proj, tk.path, tk.value, TRUE, "", tk.ver0, tk.snapE, tk.snapS))
     /\ UNCHANGED <<file, fileWatcher>>
     /\ UNCHANGED viewVars

\* clearCache() returned: the counter before and after it
ClearDone(ver0, ver1) == [NoDone EXCEPT !.kind = "clear", !.success = TRUE, !.ver0 = ver0, !.ver1 = ver1]

\* clearCache()
ClearCache ==
  /\ fileWatcher
  /\ version < MaxVersion
  /\ cache' = [p \in Projects |-> <<>>]
  /\ structureCache' = [p \in Projects |-> <<>>]
  /\ version' = version + 1
  /\ tasks' = MarkEvicted(tasks, Projects)
  /\ Returned(ClearDone(version, version'))
  /\ UNCHANGED <<file, fileWatcher>>
  /\ UNCHANGED <<noteVars, viewVars>>

\* the data file is deleted; the plugin's 'delete' handler clears the cache
DeleteFile(p) ==
  /\ fileWatcher
  /\ file[p].exists
  /\ version < MaxVersion
  /\ file' = [file EXCEPT ![p] = [exists |-> FALSE, lines |-> <<>>, mtime |-> file[p].mtime]]
  /\ cache' = [q \in Projects |-> <<>>]
  /\ structureCache' = [q \in Projects |-> <<>>]
  /\ version' = version + 1
  /\ tasks' = MarkEvicted(tasks, Projects)
  /\ Returned(ClearDone(version, version'))
  /\ UNCHANGED fileWatcher
  /\ UNCHANGED <<noteVars, viewVars>>

\* destroy(): the watcher is removed and the maps are cleared
Destroy ==
  /\ fileWatcher
  /\ fileWatcher' = FALSE
  /\ cache' = [p \in Projects |-> <<>>]
  /\ structureCache' = [p \in Projects |-> <<>>]
  /\ tasks' = MarkEvicted(tasks, Projects)
  /\ HistoryReset
  /\ UNCHANGED <<file, version>>
  /\ UNCHANGED <<noteVars, viewVars>>

\* calls and events that begin something, for the one project in use; calls are made
\* and the files are followed while the plugin is loaded, that is until destroy()
Begin ==
  \/ \E p \in OneProject : LoadCall(p)
  \/ \E p \in OneProject, c \in Contents : ExternalModify(p, c)
  \/ \E p \in OneProject, path \in WritePaths, value \in AddValues : UpdateCall(p, path, value)
  \/ \E p \in OneProject, sn \in SectionNames, key \in AddKeys, value \in AddValues : AddCall(p, sn, key, value)
  \/ ClearCache
  \/ \E p \in OneProject : DeleteFile(p)
  \/ Destroy

\* the same, each begun only when no call is at an await
SeqBegin ==
  \/ Quiet /\ \E p \in OneProject : LoadCall(p)
  \/ Quiet /\ \E p \in OneProject, c \in Contents : ExternalModify(p, c)
  \/ Quiet /\ \E p \in OneProject, path \in WritePaths, value \in WriteValues : UpdateCall(p, path, value)
  \/ Quiet /\ \E p \in OneProject, sn \in SectionNames, key \in AddKeys, value \in AddValues : AddCall(p, sn, key, value)
  \/ Quiet /\ ClearCache
  \/ Quiet /\ \E p \in OneProject : DeleteFile(p)
  \/ Quiet /\ Destroy

\* steps that resume a call at its await
Continue ==
  \/ \E t \in Running : ReadSample(t)
  \/ \E t \in Running : LoadResolve(t)
  \/ \E t \in Running : ReloadResolve(t)
  \/ \E t \in Running : WriteApply(t)
  \/ \E t \in Running : WriteFail(t)
  \/ \E t \in Running : WriteResume(t)
  \/ \E t \in Running : WriteFinish(t)

\* one project in use, calls overlapping freely
Init == InitCache(OneProject, FALSE, Contents)

Next == Begin \/ Continue

Spec == Init /\ [][Next]_vars

\* the same program with one call at a time: nothing begins while a call is at an
\* await; the returns of the calls are recorded
SeqInit == InitCache(OneProject, TRUE, Contents)

SeqNext == SeqBegin \/ Continue

SpecSeq == SeqInit /\ [][SeqNext]_vars

(***************************************************************************)
(* The writer on parsed data files: one project, one call at a time, the   *)
(* data file drawn from the texts of at most MaxLines lines                *)
(***************************************************************************)
\* bound
MaxLines == 2

LineAPlain == <<"a", ":", " ", "x">>
LineAQuoted == <<"a", ":", " ", "\"", "x", "\"">>
LineN == <<"n", ":">>
LineKComment == <<" ", " ", "k", ":", " ", "x", " ", "#", " ", "c">>
LineB == <<"b", ":", " ", "1">>
WriterLines == {LineAPlain, LineAQuoted, LineN, LineKComment, LineB}

WriterTexts == UNION {[1..k -> WriterLines] : k \in 1..MaxLines}

PathB == <<"b">>
PathN == <<"n">>
WriterPaths == {PathA, PathB, PathNK, PathN, PathQ}

\* parentPath + '.' + key, the dotted path the variables pane hands to updateVariable
getVariablePath(node) ==
  IF node.parentPath = <<>> THEN node.key ELSE node.parentPath \o <<".">> \o node.key

WriterInit == InitCache(OneProject, TRUE, WriterTexts)

WriterBegin ==
  \/ Quiet /\ \E p \in OneProject : LoadCall(p)
  \/ Quiet /\ \E p \in OneProject, path \in WriterPaths, value \in AddValues : UpdateCall(p, path, value)

WriterNext == WriterBegin \/ Continue

SpecWriter == WriterInit /\ [][WriterNext]_vars

(***************************************************************************)
(* Writes that overlap with a change of the file from outside, loads that  *)
(* overlap with clearCache: one project with two keys, the calls           *)
(* overlapping freely                                                      *)
(***************************************************************************)
LineBTwo == <<"b", ":", " ", "2">>
\* a: x / b: 1
ContentTwo == <<LineAPlain, LineB>>
\* the same with b changed outside the plugin
ContentTwoOutside == <<LineAPlain, LineBTwo>>
OverlapPaths == {PathA, PathB}

OverlapInit ==
  /\ InitCache(OneProject, TRUE, {ContentTwo})
  /\ file["docs"].exists

OverlapBegin ==
  \/ \E p \in OneProject : LoadCall(p)
  \/ \E p \in OneProject : ExternalModify(p, ContentTwoOutside)
  \/ \E p \in OneProject, path \in OverlapPaths : UpdateCall(p, path, StrV(<<"y">>))
  \/ ClearCache
  \/ \E p \in OneProject : DeleteFile(p)

OverlapNext == OverlapBegin \/ Continue

SpecOverlap == OverlapInit /\ [][OverlapNext]_vars

(***************************************************************************)
(* Two projects, the variables pane open on the first: the pane listens to *)
(* 'modify' of the data file of its project beside the cache's own watcher *)
(***************************************************************************)
PaneProject == "docs"

PaneContents == {ContentFlat, ContentNested}

\* the data file of the pane's project is changed outside the plugin. The vault raises
\* 'modify': the cache's watcher, registered first, begins its reload; the pane's handler
\* calls reloadVariables(), which clears the cache and begins loadVariables()
PaneModify(c) ==
  LET p == PaneProject
      reloading == IF Cached(p) THEN Append(tasks, ReloadTask(p)) ELSE tasks
  IN /\ fileWatcher
     /\ file[p].exists /\ file[p].mtime < MaxMods
     /\ c # file[p].lines
     /\ version < MaxVersion
     /\ Len(reloading) < MaxTasks
     /\ file' = [file EXCEPT ![p].lines = c, ![p].mtime = @ + 1]
     /\ cache' = [q \in Projects |-> <<>>]
     /\ structureCache' = [q \in Projects |-> <<>>]
     /\ version' = version + 1
     /\ tasks' = Append(MarkEvicted(reloading, Projects),
                        [NoTask EXCEPT !.kind = "load", !.proj = p, !.pc = "read",
                                       !.reads = Noted(1, 0), !.ver0 = Noted(version + 1, 0)])
     /\ HistoryReset
     /\ UNCHANGED fileWatcher
     /\ UNCHANGED <<noteVars, viewVars>>

PaneInit == InitCache(Projects, TRUE, PaneContents)

PaneBegin ==
  \/ \E p \in Projects : LoadCall(p)
  \/ \E c \in PaneContents : PaneModify(c)
  \/ \E p \in Projects \ {PaneProject}, c \in PaneContents : ExternalModify(p, c)

PaneContinue ==
  \/ \E t \in Running : ReadSample(t)
  \/ \E t \in Running : LoadResolve(t)
  \/ \E t \in Running : ReloadResolve(t)

PaneNext == PaneBegin \/ PaneContinue

SpecPane == PaneInit /\ [][PaneNext]_vars

(***************************************************************************)
(* The parser on the data files of at most MaxParseLines lines: the file   *)
(* is loaded and its structure kept by the cache                           *)
(***************************************************************************)
\* bound
MaxParseLines == 3

LineAY == <<"a", ":", " ", "y">>
LineK == <<" ", " ", "k", ":", " ", "x">>
LineM == <<" ", " ", "m", ":">>
LineJ == <<" ", " ", " ", " ", "j", ":", " ", "t", "r", "u", "e">>
LineTabK == <<"\t", "k", ":", " ", "x">>
LineComment == <<"#", " ", "s">>
LineBlank == <<>>
ParseLines == {LineAPlain, LineAY, LineN, LineK, LineTabK, LineM, LineJ, LineComment, LineBlank, LineB}

ParseTexts == UNION {[1..k -> ParseLines] : k \in 1..MaxParseLines}

ParseInit ==
  /\ InitCache(OneProject, TRUE, ParseTexts)
  /\ file["docs"].exists

ParseBegin == Quiet /\ \E p \in OneProject : LoadCall(p)

\* the steps that resume the load
ParseContinue ==
  \/ \E t \in Running : ReadSample(t)
  \/ \E t \in Running : LoadResolve(t)

ParseNext == ParseBegin \/ ParseContinue

SpecParse == ParseInit /\ [][ParseNext]_vars

(***************************************************************************)
(* One editor view with its PlaceholderRenderer, over the cache            *)
(***************************************************************************)
\* bound: the events of the editor's host, view updates and changes of the active file
MaxEvents == 2

CacheUntouched ==
  /\ UNCHANGED <<file, cache, structureCache, version, fileWatcher, tasks, noteVars>>
  /\ HistoryKept

\* variant of the request of update() that leaves the version of the cache aside
RequestNoVersion(docChanged, selectionSet, viewportChanged, cacheChanged, cached) ==
  IF docChanged \/ selectionSet THEN "immediate"
  ELSE IF viewportChanged THEN (IF cached THEN "immediate" ELSE "scroll")
  ELSE "none"

\* what update() asks of scheduleRebuild: "immediate", "scroll" or "none"
Request(docChanged, selectionSet, viewportChanged, cacheChanged, cached) ==
  IF docChanged \/ selectionSet \/ cacheChanged THEN "immediate"
  ELSE IF viewportChanged THEN (IF cached THEN "immediate" ELSE "scroll")
  ELSE "none"

\* this.lastUpdate.x = this.lastUpdate.x || update.x
Accumulated(r, docChanged, selectionSet, viewportChanged) ==
  [r EXCEPT !.lastUpdate = [docChanged |-> @.docChanged \/ docChanged,
                            viewportChanged |-> @.viewportChanged \/ viewportChanged,
                            selectionSet |-> @.selectionSet \/ selectionSet]]

\* update(update) with the request it makes, r being the renderer with the flags of the
\* update taken in
Updated(request, r) ==
  renderer' = IF request = "none" THEN r
              ELSE scheduleRebuild(r, request, editor', cache, version)

\* the editor view changes (the document to doc, the selection head to cursor, the
\* viewport to from..to, as the flags say) and the view plugin's update(update) is called;
\* limit bounds the events of the view
ViewUpdate(docChanged, selectionSet, viewportChanged, doc, cursor, from, to, limit) ==
  /\ editor.events < limit
  /\ docChanged <=> doc # editor.doc
  /\ (~docChanged /\ ~selectionSet) => cursor = editor.cursor
  /\ cursor <= Len(doc)
  /\ from <= to /\ to <= Len(doc)
  /\ editor' = [editor EXCEPT !.doc = doc, !.cursor = cursor, !.from = from, !.to = to,
                              !.events = @ + 1]
  /\ Updated(Request(docChanged, selectionSet, viewportChanged, renderer.cacheVersion # version,
                     IsCached(cache, renderer.currentProject)),
             Accumulated(renderer, docChanged, selectionSet, viewportChanged))
  /\ engineLog' = [NoLog EXCEPT !.kind = "update", !.docChanged = docChanged,
                                !.selectionSet = selectionSet, !.viewportChanged = viewportChanged,
                                !.cacheChanged = renderer.cacheVersion # version,
                                !.cached = IsCached(cache, renderer.currentProject),
                                !.ran = IsCached(cache, renderer.currentProject)
                                        /\ (docChanged \/ selectionSet \/ viewportChanged
                                            \/ renderer.cacheVersion # version)]
  /\ UNCHANGED scanning
  /\ CacheUntouched

\* an update of a view whose viewport is the whole document
UpdateEvent(docChanged, selectionSet, viewportChanged, doc, cursor) ==
  ViewUpdate(docChanged, selectionSet, viewportChanged, doc, cursor, 0, Len(doc), MaxEvents)

\* the timer's callback after executeRebuild(): the handle is set to null
Fired(r, timer) == [r EXCEPT ![timer] = "none"]

\* the rest of a timer's callback, r being the renderer after rebuildDecorations.  Where
\* the rebuild called loadVariablesInBackground and loadVariables returned without
\* waiting, scheduleRebuild() follows once the callback has ended
TimerRebuilt(timer, r) ==
  /\ IF NeedsLoad(r, editor, cache)
     THEN /\ loadVariables(r.currentProject, "view")
          /\ renderer' = IF file[r.currentProject].exists THEN Fired(r, timer)
                         ELSE scheduleRebuild(Fired(r, timer), "immediate", editor, cache, version)
     ELSE /\ renderer' = Fired(r, timer)
          /\ CacheUntouched
  /\ engineLog' = [NoLog EXCEPT !.kind = "timer", !.timer = timer, !.ran = TRUE,
                                !.cached = IsCached(cache, r.currentProject)]
  /\ UNCHANGED <<editor, scanning>>

\* a pending timer (debounceTimer or scrollDebounceTimer) fires
TimerFire(timer) ==
  /\ renderer[timer] = "armed"
  /\ TimerRebuilt(timer, executeRebuild(renderer, editor, cache, version))

\* handleFileOpen(file) of the plugin: the variables of the project of a .qmd file are
\* loaded ahead (preloadVariablesInBackground)
handleFileOpen(f) ==
  IF IsQmd(f) /\ getProjectRoot(f) # NoProject THEN loadVariables(getProjectRoot(f), "")
  ELSE CacheUntouched

\* another file becomes the active file of the workspace (another pane is focused) and
\* the workspace raises 'file-open'; the document and the selection of this view stay
ActivateFile(f) ==
  /\ editor.events < MaxEvents
  /\ f # editor.file
  /\ editor' = [editor EXCEPT !.file = f, !.events = @ + 1]
  /\ engineLog' = [NoLog EXCEPT !.kind = "activate"]
  /\ UNCHANGED <<renderer, scanning>>
  /\ handleFileOpen(f)

\* the renderer is idle: no timer pending, no load of its own in flight
Idle ==
  /\ renderer.debounceTimer # "armed"
  /\ renderer.scrollDebounceTimer # "armed"
  /\ \A t \in Running : tasks[t].owner # "view"

FileA == [name |-> "a", extension |-> "qmd", parent |-> <<"docs">>]
FileB == [name |-> "b", extension |-> "qmd", parent |-> <<"site", "posts">>]
FileLoose == [name |-> "loose", extension |-> "qmd", parent |-> <<>>]
FileNotes == [name |-> "notes", extension |-> "md", parent |-> <<"docs">>]
ViewFiles == {FileA, FileB, FileNotes}

ContentOther == << <<"a", ":", " ", "y">> >>
ViewContents == {ContentFlat, ContentOther}

\* x{{<var a>}}
DocA == <<"x", "{", "{", "<", "v", "a", "r", " ", "a", ">", "}", "}">>
\* x{{< var q >}}
DocQ == <<"x", "{", "{", "<", " ", "v", "a", "r", " ", "q", " ", ">", "}", "}">>
ViewDocs == {DocA, DocQ}
ViewCursors == {0}

ViewBegin ==
  \/ \E d, s, v \in BOOLEAN, doc \in ViewDocs, cursor \in ViewCursors : UpdateEvent(d, s, v, doc, cursor)
  \/ TimerFire("debounceTimer")
  \/ TimerFire("scrollDebounceTimer")
  \/ \E f \in ViewFiles : ActivateFile(f)
  \/ \E p \in OneProject, c \in ViewContents : ExternalModify(p, c)

\* the steps that resume the loads and reloads
ViewContinue ==
  \/ \E t \in Running : ReadSample(t)
  \/ \E t \in Running : LoadResolve(t)
  \/ \E t \in Running : ReloadResolve(t)

\* a document of project docs is open in the view
ViewInit ==
  /\ InitStore(OneProject, FALSE, ViewContents)
  /\ InitEditor({FileA}, {DocA}, {0}, {TRUE})

ViewNext == ViewBegin \/ ViewContinue

SpecView == ViewInit /\ [][ViewNext]_vars

(***************************************************************************)
(* The view closed: the editor destroys the view plugin, whose destroy()   *)
(* calls destroy() of the renderer; the loads it began go on               *)
(***************************************************************************)
\* destroy(): the pending timeouts are cleared; the handles and the other fields stay
destroy(r) ==
  [r EXCEPT !.debounceTimer = ClearTimer(@), !.scrollDebounceTimer = ClearTimer(@)]

\* the editor view is closed
DestroyView ==
  /\ ~editor.destroyed
  /\ editor' = [editor EXCEPT !.destroyed = TRUE]
  /\ renderer' = destroy(renderer)
  /\ engineLog' = [NoLog EXCEPT !.kind = "destroy"]
  /\ UNCHANGED scanning
  /\ CacheUntouched

\* a view that is open is updated; timers fire as long as they are pending
CloseBegin ==
  \/ /\ ~editor.destroyed
     /\ \E d, s, v \in BOOLEAN, doc \in ViewDocs, cursor \in ViewCursors : UpdateEvent(d, s, v, doc, cursor)
  \/ TimerFire("debounceTimer")
  \/ TimerFire("scrollDebounceTimer")
  \/ DestroyView

CloseContinue ==
  \/ \E t \in Running : ReadSample(t)
  \/ \E t \in Running : LoadResolve(t)

CloseNext == CloseBegin \/ CloseContinue

SpecClose == ViewInit /\ [][CloseNext]_vars

\* {{<var a>}}x{{<var q>}}
DocTwo == <<"{", "{", "<", "v", "a", "r", " ", "a", ">", "}", "}", "x",
            "{", "{", "<", "v", "a", "r", " ", "q", ">", "}", "}">>
DecorDocs == {DocA, DocQ, DocTwo}
DecorCursors == {0, 1, 11, 12}
DecorFiles == {FileA, FileLoose, FileNotes}

DecorBegin ==
  \/ \E d, s, v \in BOOLEAN, doc \in DecorDocs, cursor \in DecorCursors : UpdateEvent(d, s, v, doc, cursor)
  \/ TimerFire("debounceTimer")
  \/ TimerFire("scrollDebounceTimer")

\* the steps that resume the loads
DecorContinue ==
  \/ \E t \in Running : ReadSample(t)
  \/ \E t \in Running : LoadResolve(t)

\* a document of project docs, one of no project, or a note that is no .qmd document is
\* open, with highlighting of unresolved variables on or off
DecorInit ==
  /\ InitStore(OneProject, FALSE, {ContentFlat})
  /\ InitEditor(DecorFiles, {DocA}, {0}, BOOLEAN)

DecorNext == DecorBegin \/ DecorContinue

SpecDecor == DecorInit /\ [][DecorNext]_vars

\* the view of a document of project docs, whose data file is sound or undecodable,
\* with nothing else going on in the vault
IdleInit ==
  /\ InitStore(OneProject, FALSE, {ContentFlat, ContentBroken})
  /\ file["docs"].exists
  /\ InitEditor({FileA}, {DocA}, {0}, {TRUE})

IdleBegin ==
  \/ \E d, s, v \in BOOLEAN, cursor \in ViewCursors : UpdateEvent(d, s, v, IF d THEN DocQ ELSE editor.doc, cursor)
  \/ TimerFire("debounceTimer")
  \/ TimerFire("scrollDebounceTimer")

IdleNext == IdleBegin \/ DecorContinue

\* the steps of TimerFire(timer), told by what they log: the fairness conditions name
\* them so, without the rebuild the timer runs
TimerFired(timer) ==
  /\ renderer[timer] = "armed"
  /\ engineLog' \in {[NoLog EXCEPT !.kind = "timer", !.timer = timer, !.ran = TRUE, !.cached = b] :
                        b \in BOOLEAN}

\* the steps of LoadResolve, told by the call that leaves the calls in flight
LoadEnded ==
  \E t \in Running :
    tasks[t].kind = "load" /\ tasks[t].pc = "sampled" /\ tasks' = Remove(tasks, t)

\* a timer that is pending fires (window.setTimeout), a read of the vault ends, and the
\* call that awaited it resumes
IdleFair ==
  /\ WF_engineLog(TimerFired("debounceTimer"))
  /\ WF_engineLog(TimerFired("scrollDebounceTimer"))
  /\ WF_tasks(\E t \in Running : ReadSample(t))
  /\ WF_tasks(LoadEnded)

SpecIdle == IdleInit /\ [][IdleNext]_vars /\ IdleFair

(***************************************************************************)
(* The view scrolled and edited: the viewport is a part of the document    *)
(***************************************************************************)
\* bound: the updates of the view
MaxScrolls == 3

\* x|\<var a>}}, of the length of DocA
DocBar == <<"x", "|", "\\", "<", "v", "a", "r", " ", "a", ">", "}", "}">>
ScrollDocs == {DocA, DocBar}
ScrollCursors == {0, 6}

\* the viewports of a document of n characters: the whole, without the first
\* character, and each half
Viewports(n) == {<<0, n>>, <<1, n>>, <<0, n \div 2>>, <<n \div 2, n>>}

\* an update of the view; the viewport changed where its bounds did
ScrollUpdate(d, s, doc, cursor, w) ==
  ViewUpdate(d, s, w # <<editor.from, editor.to>>, doc, cursor, w[1], w[2], MaxScrolls)

ScrollBegin ==
  \/ \E d, s \in BOOLEAN, doc \in ScrollDocs, cursor \in ScrollCursors, w \in Viewports(Len(DocA)) :
       ScrollUpdate(d, s, doc, cursor, w)
  \/ TimerFire("debounceTimer")
  \/ TimerFire("scrollDebounceTimer")

ScrollInit ==
  /\ InitStore(OneProject, FALSE, {ContentFlat})
  /\ file["docs"].exists
  /\ InitEditor({FileA}, {DocA}, {0}, {TRUE})

ScrollNext == ScrollBegin \/ DecorContinue

SpecScroll == ScrollInit /\ [][ScrollNext]_vars

(***************************************************************************)
(* The cache with its clock: loads that fail and the notices they raise    *)
(***************************************************************************)
\* bound: the clock is followed for MaxTicks advances
MaxTicks == 2
MaxTime == InitialTime + MaxTicks * (ERROR_NOTIFICATION_COOLDOWN + 1)

\* the clock advances by the cooldown exactly, or by one millisecond more
TickSteps == {ERROR_NOTIFICATION_COOLDOWN, ERROR_NOTIFICATION_COOLDOWN + 1}

\* time passes
Tick(d) ==
  /\ now + d <= MaxTime
  /\ now' = now + d
  /\ UNCHANGED <<lastErrorNotified, notices>>
  /\ UNCHANGED <<file, cache, structureCache, version, fileWatcher, tasks, viewVars>>
  /\ HistoryKept

NotifyContents == {ContentFlat, ContentBroken}

\* one call of the cache at a time, while time passes
NotifyBegin ==
  \/ Quiet /\ \E p \in Projects : LoadCall(p)
  \/ Quiet /\ \E p \in OneProject, c \in NotifyContents : ExternalModify(p, c)
  \/ \E d \in TickSteps : Tick(d)

\* project docs has a data file, sound or undecodable; project site has none; the
\* returns of the calls are recorded
NotifyInit ==
  /\ InitCache(OneProject, TRUE, NotifyContents)
  /\ file["docs"].exists

NotifyNext == NotifyBegin \/ ViewContinue

SpecNotify == NotifyInit /\ [][NotifyNext]_vars

(***************************************************************************)
(* The scanner by itself: findAll on one text, as ReadingPostProcessor     *)
(* calls it for a text node.  The text is put together from the parts of a *)
(* token, each sound or not                                                *)
(***************************************************************************)
Braces == {<<"{", "{">>, <<"{">>}
OpenAngles == {<<"<">>, <<>>}
TagWords == {<<"v", "a", "r">>, <<"V", "a", "r">>}
Gaps == {<<>>, <<" ">>, <<" ", "\t">>}
ScanKeys == {<<"a">>, <<"a", ".", "b">>, <<"A", "_", "1">>, <<".", "a">>, <<"a", ".">>,
             <<"a", ".", ".", "b">>, <<"a", " ", "b">>, <<>>}
CloseAngles == {<<">">>, <<>>}
Closings == {<<"}", "}">>, <<"}">>, <<>>}

\* the text of the parts, with white space w where the token allows it
TokenText(t) ==
  t.open \o t.w \o t.angle \o t.w \o t.tag \o t.gap \o t.key \o t.w \o t.close \o t.w \o t.closing

TokenParts ==
  [open : Braces, angle : OpenAngles, tag : TagWords, gap : Gaps, key : ScanKeys,
   close : CloseAngles, closing : Closings, w : {<<>>, <<" ">>}]

\* a text node is at hand and nothing was called yet
ScanInit ==
  /\ InitStore({}, FALSE, {})
  /\ editor = [file |-> NoFile, doc |-> <<>>, from |-> 0, to |-> 0, cursor |-> 0, highlight |-> FALSE,
               events |-> 0, destroyed |-> FALSE]
  /\ renderer = NewRenderer(editor, [p \in Projects |-> <<>>])
  /\ engineLog = [NoLog EXCEPT !.kind = "new", !.ran = TRUE]
  /\ scanning \in {[NoScanning EXCEPT !.parts = t, !.text = TokenText(t)] : t \in TokenParts}

\* this.scanner.findAll(text)
FindAllCall ==
  /\ scanning.call = "none"
  /\ scanning' = [scanning EXCEPT !.call = "findAll", !.matches = findAll(scanning.text, 0)]
  /\ UNCHANGED <<editor, renderer, engineLog>>
  /\ CacheUntouched

ScanNext == FindAllCall

SpecScan == ScanInit /\ [][ScanNext]_vars

(***************************************************************************)
(* The scanner by itself over the viewports of a document: a window of     *)
(* WindowHeight characters that scrolls by one character, the document     *)
(* edited and the memo cleared in between                                  *)
(***************************************************************************)
\* bound: the calls made on the scanner
MaxScans == 12

WindowHeight == 12

\* {{<var a>}}y{{<var q>}}
DocTwoY == [DocTwo EXCEPT ![12] = "y"]
RangeDocs == {DocTwo, DocTwoY}

\* a scanner is constructed for a view of the document
RangeInit ==
  /\ InitStore({}, FALSE, {})
  /\ editor = [file |-> NoFile, doc |-> <<>>, from |-> 0, to |-> 0, cursor |-> 0, highlight |-> FALSE,
               events |-> 0, destroyed |-> FALSE]
  /\ renderer = NewRenderer(editor, [p \in Projects |-> <<>>])
  /\ engineLog = [NoLog EXCEPT !.kind = "new", !.ran = TRUE]
  /\ scanning = [NoScanning EXCEPT !.text = DocTwo, !.to = WindowHeight]

ScannerOnly ==
  /\ UNCHANGED <<editor, renderer, engineLog>>
  /\ CacheUntouched

\* scan: what findAllInRange returned
RangeCalled(from, to, scan) ==
  scanning' = [scanning EXCEPT !.call = "findAllInRange", !.from = from, !.to = to,
                               !.matches = scan.matches, !.scanner = scan.scanner,
                               !.calls = @ + 1]

\* scanner.findAllInRange(view, from, to)
FindAllInRangeCall(from, to) ==
  /\ scanning.calls < MaxScans
  /\ 0 <= from /\ to <= Len(scanning.text)
  /\ RangeCalled(from, to, findAllInRange(scanning.scanner, scanning.text, from, to))
  /\ ScannerOnly

\* scanner.clearCache()
ClearCacheCall ==
  /\ scanning.calls < MaxScans
  /\ scanning' = [scanning EXCEPT !.call = "clearCache", !.scanner = clearCache(@), !.calls = @ + 1]
  /\ ScannerOnly

\* the document of the view is edited
EditText(doc) ==
  /\ scanning.calls < MaxScans
  /\ doc # scanning.text
  /\ scanning' = [scanning EXCEPT !.call = "edit", !.text = doc, !.calls = @ + 1]
  /\ ScannerOnly

\* the window is scanned where it is, one character further down, or one further up
RangeNext ==
  \/ \E d \in {-1, 0, 1} : FindAllInRangeCall(scanning.from + d, scanning.from + d + WindowHeight)
  \/ ClearCacheCall
  \/ \E doc \in RangeDocs : EditText(doc)

SpecRange == RangeInit /\ [][RangeNext]_vars

(***************************************************************************)
(* What the claims speak of                                                *)
(***************************************************************************)
\* the calls of loadVariables for p that await their read of the data file
LoadsInFlight(p) == {t \in Running : tasks[t].kind = "load" /\ tasks[t].proj = p}

\* the flat nodes of a structure that stand at a dotted path
NodesAt(structure, path) ==
  {i \in 1..Len(structure.flatNodes) : getVariablePath(structure.flatNodes[i]) = path}

\* the path names one node of the structure and that node is a scalar leaf
IsLeafPath(structure, path) ==
  /\ Cardinality(NodesAt(structure, path)) = 1
  /\ \A i \in NodesAt(structure, path) :
       ~structure.flatNodes[i].isStructuralParent /\ structure.flatNodes[i].children = <<>>

\* an updateVariable whose writer has written: the call, with the structure it was given
WrittenUpdates == {t \in Running : tasks[t].kind = "update" /\ tasks[t].pc = "modified"}

(***************************************************************************)
(* C1  Single-flight per project                                           *)
(***************************************************************************)
\* C1: at any time at most one call of loadVariables(P) is awaiting a read of P's data
\* file; a call made while another one is awaiting its read starts no second read.
C1_SingleFlight == \A p \in Projects : Cardinality(LoadsInFlight(p)) <= 1

(***************************************************************************)
(* C2  Round trip of a write                                               *)
(***************************************************************************)
\* C2: when updateVariable(p, v) on an existing scalar leaf path p has written the file,
\* the text written has the lines of originalLines except for the line of p's node, and
\* parsing it again gives v at p and the value of before at every other node.
C2_WriteRoundTrip ==
  \A t \in WrittenUpdates :
    LET S == tasks[t].snapS[1]
        written == tasks[t].newContent
        again == parse(written).flatNodes
    IN IsLeafPath(S, tasks[t].path) =>
         /\ Len(written) = Len(S.originalLines)
         /\ \A i \in 1..Len(written) :
              (\A j \in NodesAt(S, tasks[t].path) : S.flatNodes[j].lineStart + 1 # i)
                => written[i] = S.originalLines[i]
         /\ Len(again) = Len(S.flatNodes)
         /\ \A j \in 1..Len(again) :
              /\ getVariablePath(again[j]) = getVariablePath(S.flatNodes[j])
              /\ again[j].value = IF j \in NodesAt(S, tasks[t].path) THEN tasks[t].value
                                  ELSE S.flatNodes[j].value

(***************************************************************************)
(* C3  Reload after write                                                  *)
(***************************************************************************)
\* C3: once updateVariable(P, key, v) on an existing scalar leaf has resolved with
\* success, get(P, key) returns the display text of v.
C3_ReloadAfterWrite ==
  (/\ lastDone.kind = "update" /\ lastDone.success
   /\ IsLeafPath(lastDone.snapS[1], lastDone.path))
  => get(lastDone.proj, lastDone.path) = StrV(ToDisplay(lastDone.value))

(***************************************************************************)
(* C4  PathError                                                           *)
(***************************************************************************)
\* C4: an updateVariable whose path names no scalar leaf of the structure (it ends at a
\* parent, or its last segment matches no key) never reaches the write of the file, and
\* returns a failure that says the path was not found.
C4_PathError ==
  /\ \A t \in Running :
       (tasks[t].kind = "update" /\ tasks[t].pc \in {"modify", "modified"})
         => \E i \in NodesAt(tasks[t].snapS[1], tasks[t].path) :
              ~tasks[t].snapS[1].flatNodes[i].isStructuralParent
  /\ (/\ lastDone.kind = "update" /\ lastDone.snapS # <<>>
      /\ NodesAt(lastDone.snapS[1], lastDone.path) = {}
      /\ file[lastDone.proj].exists)
     => (~lastDone.success /\ lastDone.error = "Variable path not found in structure")

(***************************************************************************)
(* C5  A failed write leaves the cache untouched                           *)
(***************************************************************************)
\* C5: when updateVariable has returned success = false, the entry of P, the cached
\* structure of P and the version counter are what they were when it was called.
C5_FailedWriteKeepsCache ==
  (lastDone.kind = "update" /\ ~lastDone.success)
  => /\ cache[lastDone.proj] = lastDone.snapE
     /\ structureCache[lastDone.proj] = lastDone.snapS
     /\ version = lastDone.ver0

(***************************************************************************)
(* C6  The writer never mutates the structure it is given                  *)
(***************************************************************************)
\* C6: while the writer awaits its write, the structure it was given (here the one the
\* cache holds, nothing else running) equals what it was when the writer was called.
C6_WriterKeepsStructure ==
  \A t \in Running :
    (tasks[t].kind = "update" /\ tasks[t].pc = "modify")
      => structureCache[tasks[t].proj] = tasks[t].snapS

(***************************************************************************)
(* C7  Idempotent load                                                     *)
(***************************************************************************)
\* two calls of loadVariables returned one after the other with nothing in between,
\* the first of them having found no entry cached
TwoLoads ==
  /\ lastDone.kind = "load" /\ prevDone.kind = "load"
  /\ ~(prevDone.reads = 0 /\ prevDone.ret # <<>>)

\* C7 as stated: for any project, the two calls read the file once in all, the second
\* returns the entry the first stored, and the counter went up once.
C7_IdempotentLoadAnyProject ==
  TwoLoads => /\ prevDone.reads + lastDone.reads = 1
              /\ lastDone.ret # <<>> /\ lastDone.ret = prevDone.ret
              /\ lastDone.ver1 = prevDone.ver0 + 1

\* C7 amended: for a project whose data file exists and decodes (the first call read it
\* and returned an entry), the second call reads nothing, returns that entry, and the
\* counter went up once over the two calls.
C7_IdempotentLoad ==
  (TwoLoads /\ prevDone.ret # <<>>)
  => /\ prevDone.reads = 1 /\ lastDone.reads = 0
     /\ lastDone.ret = prevDone.ret
     /\ cache[lastDone.proj] = prevDone.ret
     /\ prevDone.ver1 = prevDone.ver0 + 1 /\ lastDone.ver0 = prevDone.ver1
     /\ lastDone.ver1 = prevDone.ver1 /\ version = prevDone.ver1

C7_Witness ==
  TwoLoads /\ prevDone.ret # <<>> /\ prevDone.reads = 1 /\ lastDone.reads = 0
  /\ lastDone.ret = prevDone.ret

(***************************************************************************)
(* C8  Nested lookup                                                       *)
(***************************************************************************)
\* C8: get(P, key) is the display text of the value found by descending through nested
\* mappings only, and undefined when a segment is missing, when a value met before the
\* last segment is no mapping, or when P has no entry.
C8_NestedLookup ==
  LET RECURSIVE through(_, _)
      through(current, keys) ==
        IF Len(keys) = 0 THEN current
        ELSE IF current.t # "object" \/ ~MapHas(current.m, keys[1]) THEN UndefV
        ELSE through(MapGet(current.m, keys[1]), Tail(keys))
      found(p, key) == through(cache[p][1].data, Split(key, "."))
  IN \A p \in Projects, key \in LookupKeys :
       get(p, key) = IF ~Cached(p) \/ found(p, key).t \in {"null", "undefined"} THEN UndefV
                     ELSE StrV(ToDisplay(found(p, key)))

(***************************************************************************)
(* C9  Version monotonicity                                                *)
(***************************************************************************)
\* C9: no step lowers the counter; a step that stores an entry (a load, a reload, the
\* reload of a write) raises the counter and gives the entry the new counter, which is
\* above the version of every entry stored before; a clearCache that returned raised
\* the counter; a load that read and returned an entry raised it; no entry held is
\* above the counter.
C9_VersionMonotonic ==
  [][/\ version' >= version
     /\ \A p \in Projects :
          (cache'[p] # <<>> /\ cache'[p] # cache[p])
            => (version' > version /\ cache'[p][1].version = version')
     /\ \A p \in Projects : cache[p] # <<>> => cache[p][1].version <= version
     /\ \A p \in Projects : cache'[p] # <<>> => cache'[p][1].version <= version'
     /\ lastDone'.kind = "clear" => lastDone'.ver1 > lastDone'.ver0
     /\ (lastDone'.kind = "load" /\ lastDone'.reads = 1 /\ lastDone'.ret # <<>>)
          => lastDone'.ver1 > lastDone'.ver0
    ]_vars

\* an entry stored after the counter had already moved, and a clearCache after a store
C9_Witness ==
  \/ \E p \in Projects : Cached(p) /\ cache[p][1].version = version /\ version >= 2
  \/ lastDone.kind = "clear" /\ lastDone.ver0 >= 1

(***************************************************************************)
(* C10  Push-based refresh                                                 *)
(***************************************************************************)
\* C10: with no read and no write in flight, and the data file decoding, the entry of
\* the project, if there is one, holds the data of the file's content, and the cached
\* structure, if there is one, is the structure of that content.
C10_Coherent ==
  Quiet => \A p \in Projects :
             (file[p].exists /\ Decoded(file[p].lines).ok)
               => /\ Cached(p) => cache[p][1].data = Decoded(file[p].lines).data
                  /\ structureCache[p] # <<>>
                       => structureCache[p][1].originalLines = file[p].lines


(***************************************************************************)
(* The renderer: hot reload, projects, cursor, placeholders, scheduling    *)
(***************************************************************************)
\* every resolved decoration of the renderer shows what the cache map c holds for its key
ShowsValuesOf(r, c) ==
  \A d \in r.decorations :
    d.widget.isResolved => GetIn(c, r.currentProject, d.key) = StrV(d.widget.value)

\* C11: once the data file was modified and the cache reloaded, the decorations are
\* rebuilt with the new values without a further edit, selection or scroll event: when
\* the renderer is idle and no read is in flight, the resolved values on display in a
\* .qmd document are those of the cache
C11_HotReloadShown ==
  (Idle /\ Quiet /\ IsQmd(editor.file) /\ IsCached(cache, renderer.currentProject))
    => ShowsValuesOf(renderer, cache)

\* the last step ran rebuildDecorations() on a .qmd document
RebuildRan == engineLog.ran /\ engineLog.kind # "new" /\ IsQmd(editor.file)

\* C12: at every rebuild the project whose values are used is the one the resolver
\* returns for the active .qmd file; once the active file is a document of another
\* project, or of none, no rebuild uses the previous project
C12_ProjectOfActiveFile ==
  RebuildRan => renderer.currentProject = getProjectRoot(editor.file)

\* the matches of the scanner in the viewport of the view
ViewMatches == Elements(findAll(Substring(editor.doc, editor.from, editor.to), editor.from))

\* the match m contains the selection head
AtCursor(m) == m.from <= editor.cursor /\ editor.cursor <= m.to

\* the decorations the renderer holds for the span of the match m
DecorationsAt(m) == {d \in renderer.decorations : d.from = m.from /\ d.to = m.to}

\* C13: in the decoration set a rebuild produced, no decoration covers a match that
\* contains the selection head, whether or not the key resolves, a project is associated
\* or unresolved variables are highlighted
C13_CursorSuppression ==
  engineLog.ran => \A m \in ViewMatches : AtCursor(m) => DecorationsAt(m) = {}

\* a rebuild ran with the selection head at the end of a match whose key resolves, and
\* another match of the document is decorated
C13_Witness ==
  /\ RebuildRan
  /\ IsCached(cache, renderer.currentProject)
  /\ \E m \in ViewMatches :
       /\ editor.cursor = m.to
       /\ GetIn(cache, renderer.currentProject, m.key) # UndefV
  /\ renderer.decorations # {}

\* the characters of the document under the match m
RawText(m) == SubSeq(editor.doc, m.from + 1, m.to)

\* the match m lies outside the selection head and its key is absent from the cache of
\* the view's project
Unresolved(m) ==
  /\ ~AtCursor(m)
  /\ renderer.currentProject # NoProject
  /\ GetIn(cache, renderer.currentProject, m.key) = UndefV

\* C14: for a match outside the cursor whose key is absent from the project's cache, a
\* rebuild yields a flagged decoration that shows the exact characters of the document
\* from..to when highlightUnresolvedVariables is enabled, and no decoration when it is not
C14_UnresolvedShowsRawText ==
  RebuildRan =>
    \A m \in ViewMatches :
      Unresolved(m) =>
        IF editor.highlight
        THEN DecorationsAt(m) = {Deco(m, Widget(RawText(m), FALSE))}
        ELSE DecorationsAt(m) = {}

\* C15: when a build runs for a .qmd view with no current project, every match of the
\* scanner that does not contain the cursor receives a decoration that shows it as a
\* flagged placeholder; none is left without a decoration
C15_NoProjectAllFlagged ==
  (engineLog.ran /\ IsQmd(editor.file) /\ renderer.currentProject = NoProject) =>
    \A m \in ViewMatches :
      ~AtCursor(m) => DecorationsAt(m) = {Deco(m, Widget(RawToken(m.key), FALSE))}

\* a timer's rebuild ran for a .qmd document of no project, and a match outside the
\* cursor is decorated
C15_Witness ==
  /\ RebuildRan
  /\ renderer.currentProject = NoProject
  /\ \E m \in ViewMatches : ~AtCursor(m) /\ DecorationsAt(m) # {}

\* this step is an update of the view
IsUpdate == engineLog'.kind = "update" /\ editor'.events = editor.events + 1

\* before the step the version the renderer recorded differs from the cache's
VersionDiffers == renderer.cacheVersion # version

\* before the step the view's project has an entry in the cache
ProjectCached == IsCached(cache, renderer.currentProject)

\* the step did what an Immediate request does: no scroll timer stays pending; the
\* rebuild ran at once if the project is cached, and the 16 ms timer is pending if not
ImmediateStep ==
  /\ renderer'.scrollDebounceTimer = "none"
  /\ IF ProjectCached
     THEN /\ renderer'.debounceTimer # "armed"
          /\ renderer'.decorations = buildDecorations(renderer', editor', cache).decorations
          /\ IsQmd(editor'.file) => renderer'.cacheVersion = version
     ELSE /\ renderer'.debounceTimer = "armed"
          /\ renderer'.decorations = renderer.decorations

\* the step did what a ScrollDebounced request does: the 100 ms timer is pending, nothing
\* else changed but the flags kept of the updates
ScrollStep ==
  renderer' = [renderer EXCEPT !.scrollDebounceTimer = "armed", !.lastUpdate = renderer'.lastUpdate]

\* what the claim asks of an update with the flags of log
Classified(log) ==
  IF log.docChanged \/ log.selectionSet \/ VersionDiffers THEN ImmediateStep
  ELSE IF log.viewportChanged THEN (IF ProjectCached THEN ImmediateStep ELSE ScrollStep)
  ELSE renderer' = renderer

\* C16: on every update of the view a document edit or a selection change schedules an
\* Immediate rebuild; a viewport-only change schedules ScrollDebounced when the project
\* has no cache entry and Immediate when it has one; a difference between the recorded
\* and the current cache version schedules Immediate whatever the event; an update with
\* none of these schedules nothing
C16_TriggerClassification == [][IsUpdate => Classified(engineLog')]_vars

\* a viewport-only update found the cache version changed and rebuilt at once
C16_Witness ==
  /\ engineLog.kind = "update"
  /\ engineLog.viewportChanged /\ ~engineLog.docChanged /\ ~engineLog.selectionSet
  /\ engineLog.cacheChanged /\ engineLog.ran
  /\ renderer.cacheVersion = version /\ version > 1

\* C17: at most one rebuild timer of a view is pending in every reachable state: every
\* scheduling request cancels whichever timer is pending before it installs its own or
\* rebuilds
C17_SinglePendingTimer ==
  ~(renderer.debounceTimer = "armed" /\ renderer.scrollDebounceTimer = "armed")

\* the match m carries a decoration that shows a value of the cache
ShownResolved(m) == \E d \in DecorationsAt(m) : d.widget.isResolved

\* the last step of the renderer was the end of its background load, which stored an
\* entry; since then nothing is pending: no timer, no read
LoadedAndSettled == engineLog.kind = "loaded" /\ engineLog.entry /\ Idle /\ Quiet

\* C18: when the load a rebuild started in the background completes with an entry, a
\* rebuild is executed in which the project's values are used, without a further edit,
\* selection or scroll event: once that load has ended and nothing is pending, every
\* match outside the cursor whose key the cache resolves shows a value
C18_LoadedValuesShown ==
  LoadedAndSettled =>
    \A m \in ViewMatches :
      (~AtCursor(m) /\ GetIn(cache, renderer.currentProject, m.key) # UndefV) => ShownResolved(m)

\* C19: after the last edit, selection or viewport event the engine reaches Idle (no
\* timer pending, no load in flight) and stays there, whatever the outcome of the load
\* of the project, a missing or undecodable data file included
C19_ReturnsToIdle == <>[]Idle

(***************************************************************************)
(* The notices of the cache                                                *)
(***************************************************************************)
\* the last two notices of project p, if there are two, are more than the cooldown apart
FarApart(p) ==
  notices[p][1] # 0 => notices[p][2] - notices[p][1] > ERROR_NOTIFICATION_COOLDOWN

\* in this step loadVariables found no data file for project p and returned at once
LoadFoundNoFile(p) ==
  /\ tasks' = tasks /\ now' = now
  /\ lastDone'.kind = "load" /\ lastDone'.proj = p /\ ~lastDone'.success

\* in this step a load of project p resumed after its read and stored no entry
LoadStoredNothing(p) ==
  \E t \in Running :
    /\ tasks[t].kind = "load" /\ tasks[t].proj = p /\ tasks[t].pc = "sampled"
    /\ tasks' = Remove(tasks, t)
    /\ lastDone'.kind = "load" /\ lastDone'.proj = p /\ ~lastDone'.success

\* in this step a load of project p returned without an entry
LoadFailed(p) == LoadFoundNoFile(p) \/ LoadStoredNothing(p)

\* the failure of p raises a notice exactly when p's own last notice is more than the
\* cooldown ago, and touches no other project's notices
OwnLimitOnly(p) ==
  /\ notices'[p] = IF now - lastErrorNotified[p] > ERROR_NOTIFICATION_COOLDOWN
                   THEN <<notices[p][2], now>> ELSE notices[p]
  /\ \A q \in Projects \ {p} : notices'[q] = notices[q]

\* C20: for each project any two error notices the cache raises (missing file, decode
\* failure or reload failure) are more than 60 seconds apart, however many failures
\* occur; and the limit of one project does not suppress the notices of another
C20_NotificationRateLimit ==
  /\ [](\A p \in Projects : FarApart(p))
  /\ [][\A p \in Projects : LoadFailed(p) => OwnLimitOnly(p)]_vars

\* project docs was notified twice, and project site was notified within the cooldown of
\* a notice of docs
C20_Witness ==
  /\ notices["docs"][1] # 0
  /\ notices["site"][2] # 0
  /\ notices["site"][2] >= notices["docs"][1]
  /\ notices["site"][2] - notices["docs"][1] <= ERROR_NOTIFICATION_COOLDOWN


(***************************************************************************)
(* Loads that fail                                                         *)
(***************************************************************************)
\* the call that returned last is a loadVariables that resolved to none
LoadReturnedNone == lastDone.kind = "load" /\ lastDone.ret = <<>>

\* two calls of loadVariables for one project returned one after the other, the first of
\* them with none
LoadAfterFailure ==
  /\ prevDone.kind = "load" /\ prevDone.ret = <<>>
  /\ lastDone.kind = "load" /\ lastDone.proj = prevDone.proj

GrammarKey(key) ==
  /\ Len(key) > 0
  /\ \A i \in 1..Len(key) : IsKeyChar(key[i])
  /\ key[1] # "." /\ key[Len(key)] # "."
  /\ \A i \in 1..(Len(key) - 1) : ~(key[i] = "." /\ key[i + 1] = ".")

\* the parts make a token of the grammar
Conforms(t) ==
  /\ t.open = <<"{", "{">> /\ t.angle = <<"<">> /\ t.tag = <<"v", "a", "r">>
  /\ t.gap # <<>> /\ GrammarKey(t.key)
  /\ t.close = <<">">> /\ t.closing = <<"}", "}">>

\* C22: findAll returns a match, with the key of the token and the span of the whole
\* token, exactly for the texts that conform to the grammar; it returns no match for
\* the others; and every key it returns satisfies isValidKey
C22_TokenGrammar ==
  scanning.call = "findAll" =>
    /\ scanning.matches =
         IF Conforms(scanning.parts)
         THEN <<[from |-> 0, to |-> Len(scanning.text), key |-> scanning.parts.key]>>
         ELSE <<>>
    /\ \A i \in DOMAIN scanning.matches : isValidKey(scanning.matches[i].key)


(***************************************************************************)
(* The memo of the scanner                                                 *)
(***************************************************************************)
\* the keys of a map, in the order of their insertion
KeysOf(m) == [i \in 1..Len(m) |-> m[i][1]]

\* this step is a call of findAllInRange that inserts the key of a new viewport into a
\* memo that holds ten
InsertsBeyondBound ==
  /\ scanning'.call = "findAllInRange" /\ scanning'.calls = scanning.calls + 1
  /\ Len(scanning.scanner.lastScanResults) = 10
  /\ ~MapHas(scanning.scanner.lastScanResults, CacheKey(scanning'.from, scanning'.to))

\* the keys the step leaves are those of before without some of the earliest inserted,
\* followed by the key just inserted
DropsEarliest ==
  \E k \in 1..10 :
    KeysOf(scanning'.scanner.lastScanResults)
      = SubSeq(KeysOf(scanning.scanner.lastScanResults), k + 1, 10)
          \o <<CacheKey(scanning'.from, scanning'.to)>>

\* C23: after every call of findAllInRange the memo holds at most 10 viewports and its
\* result map and hash map have the same keys; an insertion that exceeds the bound
\* drops entries inserted earliest and keeps the entry just inserted
C23_BoundedScannerCache ==
  /\ [](scanning.call = "findAllInRange" =>
          /\ Len(scanning.scanner.lastScanResults) <= 10
          /\ KeysOf(scanning.scanner.lastScanResults) = KeysOf(scanning.scanner.lastScanHash)
          /\ MapHas(scanning.scanner.lastScanResults, CacheKey(scanning.from, scanning.to)))
  /\ [][InsertsBeyondBound => DropsEarliest]_vars

\* the eleventh viewport was scanned: the memo holds the six entries inserted last
C23_Witness ==
  /\ scanning.call = "findAllInRange"
  /\ scanning.from = 10
  /\ Len(scanning.scanner.lastScanResults) = 6
  /\ KeysOf(scanning.scanner.lastScanResults)[1] = CacheKey(5, 5 + WindowHeight)
  /\ KeysOf(scanning.scanner.lastScanResults)[6] = CacheKey(10, 10 + WindowHeight)


(***************************************************************************)
(* The structure the parser returns                                        *)
(***************************************************************************)
\* the structures parse returned and the cache keeps
Parsed == {structureCache[p][1] : p \in {q \in Projects : structureCache[q] # <<>>}}

NodesOf(S) == Elements(S.flatNodes)

\* C24: in every structure parse returns, a node that is a structural parent has
\* children and a node that is none has no children; a key line with an empty, '|' or
\* '>' right-hand side that no more-indented key line follows yields no structural
\* parent without children
C24_ParentLeaf ==
  \A S \in Parsed : \A n \in NodesOf(S) : n.isStructuralParent <=> n.children # <<>>

\* the leaves of a mapping with their dotted paths
RECURSIVE DataLeaves(_, _)
DataLeaves(m, prefix) ==
  UNION {IF m[i][2].t = "object"
         THEN DataLeaves(m[i][2].m, ChildPath(prefix, m[i][1]))
         ELSE {<<ChildPath(prefix, m[i][1]), m[i][2]>>} : i \in DOMAIN m}

\* the nodes without children, by parentPath + key, with their values
NodeLeaves(S) ==
  {<<getVariablePath(n), n.value>> : n \in {l \in NodesOf(S) : l.children = <<>>}}

\* yaml.load accepted the text
Accepted(S) == YamlLoadDoc(S.originalLines).ok

\* C25: for every text parse accepts, the leaf nodes of flatNodes, re-nested by
\* parentPath + key, give the dotted paths of parsedData with the same values and value
\* types, numbers and booleans included; the entry of the cache holds the same data
C25_TreeMatchesMapping ==
  \A p \in Projects :
    (structureCache[p] # <<>> /\ Accepted(structureCache[p][1])) =>
      /\ NodeLeaves(structureCache[p][1]) = DataLeaves(structureCache[p][1].parsedData, <<>>)
      /\ Cached(p) => NodeLeaves(structureCache[p][1]) = DataLeaves(cache[p][1].data.m, <<>>)

\* a line that is a comment from its first character that is not white
IsFullLineComment(line) == StartsWith(Trim(line), "#")

\* C26: for a text with no full-line comment parse returns exactly one section, the
\* implicit one with the empty comment, which holds all the nodes of the text in source
\* order; so it is for a text with no key line at all
C26_ImplicitSection ==
  \A S \in Parsed :
    (\A i \in DOMAIN S.originalLines : ~IsFullLineComment(S.originalLines[i])) =>
      /\ Len(S.sections) = 1
      /\ S.sections[1].comment = <<>>
      /\ flatten(S.sections[1].nodes) = S.flatNodes
      /\ \A i, j \in DOMAIN S.sections[1].nodes :
           i < j => S.sections[1].nodes[i].lineStart < S.sections[1].nodes[j].lineStart

\* the key a line holds: what stands before its first colon
KeyOfLine(trimmed) == Trim(Substring(trimmed, 0, IndexOf(trimmed, ":")))

\* C27: in every structure parse returns, lineStart and lineEnd of a node index the
\* line of originalLines that holds its key, no line is claimed by two nodes, siblings
\* have disjoint line ranges, and flatNodes lists the nodes by increasing lineStart
C27_LineOwnership ==
  \A S \in Parsed :
    /\ \A n \in NodesOf(S) :
         /\ n.lineStart = n.lineEnd
         /\ n.lineStart >= 0 /\ n.lineStart < Len(S.originalLines)
         /\ KeyOfLine(Trim(S.originalLines[n.lineStart + 1])) = n.key
         /\ \A i, j \in DOMAIN n.children :
              i # j => n.children[i].lineStart # n.children[j].lineStart
    /\ \A i, j \in DOMAIN S.flatNodes : i < j => S.flatNodes[i].lineStart < S.flatNodes[j].lineStart

\* a structure of three nodes on three lines: a parent, its child and the child of that
C27_Witness ==
  \E S \in Parsed :
    /\ Len(S.flatNodes) = 3
    /\ S.flatNodes[1].children # <<>> /\ S.flatNodes[2].children # <<>>
    /\ S.flatNodes[3].lineStart = 2


(***************************************************************************)
(* The spans of the decorations and the memo of the scanner on scroll      *)
(***************************************************************************)
\* two decorations, one ending before the other starts
Apart(d, e) == d.to <= e.from \/ e.to <= d.from

\* the span of d is that of a match of the text of the viewport
OnMatch(d) == \E m \in ViewMatches : m.from = d.from /\ m.to = d.to

\* C28: the decorations a rebuild produces are ordered by start offset and do not
\* overlap, every span lies inside the viewport [from, to] in offsets of the document,
\* and every span is that of one match of the scanner in the text of the viewport
C28_DecorationSpans ==
  (engineLog.ran /\ IsQmd(editor.file)) =>
    /\ \A d, e \in renderer.decorations : d # e => Apart(d, e)
    /\ \A d \in renderer.decorations : editor.from <= d.from /\ d.to <= editor.to
    /\ \A d \in renderer.decorations : OnMatch(d)

\* the flags accumulated when the rebuild of this step begins
Pending ==
  IF engineLog'.kind = "update"
  THEN Accumulated(renderer, engineLog'.docChanged, engineLog'.selectionSet,
                   engineLog'.viewportChanged).lastUpdate
  ELSE renderer.lastUpdate

\* the memo holds what one scan of the viewport leaves in an empty one: the matches of
\* the text of the viewport under the key of the viewport, and nothing else
ScannedAfresh(sc, ed) ==
  /\ Len(sc.lastScanResults) = 1
  /\ Len(sc.lastScanHash) = 1
  /\ sc.lastScanResults[1][1] = CacheKey(ed.from, ed.to)
  /\ sc.lastScanHash[1][1] = CacheKey(ed.from, ed.to)
  /\ sc.lastScanResults[1][2] = findAll(Substring(ed.doc, ed.from, ed.to), ed.from)

\* C30: whenever a rebuild executes and the updates accumulated since the rebuild before
\* include a change of the viewport and no edit of the document, the memo of the scanner
\* is emptied before the viewport is scanned; after every rebuild executed the flags
\* docChanged, viewportChanged and selectionSet accumulated are all reset
C30_ScannerCacheOnScroll ==
  [][engineLog'.ran =>
       /\ renderer'.lastUpdate = NoUpdate
       /\ (Pending.viewportChanged /\ ~Pending.docChanged) => ScannedAfresh(renderer'.scanner, editor')]_vars

\* the view was scrolled by one character and rebuilt: the memo holds the viewport
\* scanned and no longer the one scanned at construction
C30_Witness ==
  /\ engineLog.ran /\ engineLog.kind \in {"update", "timer"}
  /\ editor.from = 1 /\ editor.doc = DocA
  /\ MapHas(renderer.scanner.lastScanResults, CacheKey(1, Len(DocA)))
  /\ ~MapHas(renderer.scanner.lastScanResults, CacheKey(0, Len(DocA)))
  /\ renderer.lastUpdate = NoUpdate


(***************************************************************************)
(* The occurrence a write changes                                          *)
(***************************************************************************)
\* the nodes of a structure that are scalar leaves
ScalarLeaves(S) ==
  {j \in 1..Len(S.flatNodes) : ~S.flatNodes[j].isStructuralParent /\ S.flatNodes[j].children = <<>>}

\* the text written, read again, has the value v on the line of node j and on the line
\* of every other node the value of before
OnlyChanged(S, written, j, v) ==
  /\ Len(written) = Len(S.originalLines)
  /\ Len(parse(written).flatNodes) = Len(S.flatNodes)
  /\ \A i \in 1..Len(S.flatNodes) :
       /\ parse(written).flatNodes[i].lineStart = S.flatNodes[i].lineStart
       /\ parse(written).flatNodes[i].value = IF i = j THEN v ELSE S.flatNodes[i].value

\* C29: for every scalar leaf n of a parsed structure, updateVariable called with the
\* path the variables pane builds for n (parentPath + '.' + key, or key alone) changes
\* the line at n.lineStart and the line of no other node, also when a node of the same
\* key stands earlier among its siblings or in an earlier section, with or without
\* children
C29_CorrectOccurrence ==
  \A t \in WrittenUpdates :
    \A j \in ScalarLeaves(tasks[t].snapS[1]) :
      getVariablePath(tasks[t].snapS[1].flatNodes[j]) = tasks[t].path
        => OnlyChanged(tasks[t].snapS[1], tasks[t].newContent, j, tasks[t].value)


(***************************************************************************)
(* The nested blocks and the sections of a parsed text                     *)
(***************************************************************************)
\* line i of the text (counted from 0) is a key line
KeyLineAt(lines, i) == isYamlKeyLine(Trim(lines[i + 1]))

IndentAt(lines, i) == getIndentationLevel(lines[i + 1])

\* the key lines after line s that are indented more than it and come before the first
\* key line that is not
Block(lines, s) ==
  {i \in (s + 1)..(Len(lines) - 1) :
     \A j \in (s + 1)..i : KeyLineAt(lines, j) => IndentAt(lines, j) > IndentAt(lines, s)} \cap
  {i \in 0..(Len(lines) - 1) : KeyLineAt(lines, i)}

\* the lines of the nodes below n
LinesBelow(n) == {c.lineStart : c \in Elements(flatten(n.children))}

\* the nodes at the top of the sections
TopNodes(S) == UNION {Elements(S.sections[k].nodes) : k \in DOMAIN S.sections}

\* C31: the nodes below a structural parent at indentation b (a space counts 1, a tab 2)
\* are the key lines after it indented more than b that come before the first key line
\* indented b or less, blank lines and comments ending no block, and so at every depth;
\* the parentPath of a node is the dot-joined keys of its ancestors, absent at the top
C31_NestedBlocks ==
  \A S \in Parsed :
    /\ \A n \in NodesOf(S) :
         /\ LinesBelow(n) = IF n.isStructuralParent THEN Block(S.originalLines, n.lineStart) ELSE {}
         /\ \A c \in Elements(n.children) : c.parentPath = getVariablePath(n)
    /\ \A n \in TopNodes(S) : n.parentPath = <<>>

\* a parent, a comment and a child indented by a tab below it
C31_Witness ==
  \E S \in Parsed :
    /\ S.originalLines = <<LineN, LineComment, LineTabK>>
    /\ Len(S.flatNodes) = 2
    /\ S.flatNodes[2].parentPath = <<"n">> /\ S.flatNodes[2].level = 2


\* the section made for the nodes no header precedes
IsImplicit(sec) == sec.comment = <<>> /\ sec.header = DefaultSection(<<>>).header

\* line c lies inside the nested block of a node
InBlock(S, c) == \E n \in NodesOf(S) : n.lineStart < c /\ \E d \in LinesBelow(n) : c < d

\* the full-line comments outside the nested blocks that precede line l
HeadersBefore(S, l) ==
  {c \in 0..(l - 1) : IsFullLineComment(S.originalLines[c + 1]) /\ ~InBlock(S, c)}

Highest(set) == CHOOSE c \in set : \A d \in set : d <= c

\* sec is the section that the node at line l belongs to
SectionOfLine(S, sec, l) ==
  IF HeadersBefore(S, l) = {} THEN IsImplicit(sec)
  ELSE ~IsImplicit(sec) /\ sec.lineNumber = Highest(HeadersBefore(S, l))

\* C32: every top-level node is in the section of the nearest full-line comment that
\* precedes it outside the nested blocks, or in the implicit section when none does; the
\* sections stand in source order, the implicit one first, and the nodes of a section
\* in source order
C32_SectionAssignment ==
  \A S \in Parsed :
    /\ \A k \in DOMAIN S.sections : \A n \in Elements(S.sections[k].nodes) :
         SectionOfLine(S, S.sections[k], n.lineStart)
    /\ {n.lineStart : n \in TopNodes(S)} \cup UNION {LinesBelow(n) : n \in TopNodes(S)}
         = {i \in 0..(Len(S.originalLines) - 1) : KeyLineAt(S.originalLines, i)}
    /\ \A k, l \in DOMAIN S.sections :
         k < l => /\ ~IsImplicit(S.sections[l])
                  /\ IsImplicit(S.sections[k]) \/ S.sections[k].lineNumber < S.sections[l].lineNumber
    /\ \A k \in DOMAIN S.sections : \A i, j \in DOMAIN S.sections[k].nodes :
         i < j => S.sections[k].nodes[i].lineStart < S.sections[k].nodes[j].lineStart

\* a node, a header and a node: the implicit section and the section of the header
C32_Witness ==
  \E S \in Parsed :
    /\ S.originalLines = <<LineAPlain, LineComment, LineB>>
    /\ Len(S.sections) = 2
    /\ IsImplicit(S.sections[1]) /\ Len(S.sections[1].nodes) = 1
    /\ S.sections[2].lineNumber = 1 /\ Len(S.sections[2].nodes) = 1
    /\ S.sections[2].nodes[1].lineStart = 2


(***************************************************************************)
(* Reloads that fail                                                       *)
(***************************************************************************)
\* the step in which the reload t, whose read or decode failed, ends
ReloadFailedAt(t) ==
  /\ tasks[t].kind = "reload" /\ tasks[t].pc = "sampled"
  /\ ~Stores(tasks[t].readOk, tasks[t].content)
  /\ \/ tasks' = Remove(tasks, t)
     \/ Len(tasks') = Len(tasks) /\ tasks'[t].pc = "read"

\* C33: when the read or the decode of a reload after a modify event fails, the entry of
\* the project (data, version, lastModified) stays, the version counter is unchanged and
\* get answers as before; the notice apart, nothing the cache shows has changed
C33_FailedReloadKeepsEntry ==
  [][\A t \in Running : ReloadFailedAt(t) => UNCHANGED <<cache, version, structureCache>>]_vars


(***************************************************************************)
(* The two maps of the cache                                               *)
(***************************************************************************)
\* the entry and the structure of p come from the same text
SameContent(p) == cache[p][1].data = Decoded(structureCache[p][1].originalLines).data

\* C34: whenever no load or reload of a project is in flight, also after one that ended
\* in a decode failure, the mapping cache holds an entry for the project exactly when the
\* structure cache holds one, and both were built from the same content of the file
C34_CachesPaired ==
  Quiet => \A p \in Projects :
             /\ Cached(p) <=> structureCache[p] # <<>>
             /\ Cached(p) /\ structureCache[p] # <<>> => SameContent(p)


(***************************************************************************)
(* Writes and what they replace                                            *)
(***************************************************************************)
\* the step in which vault.modify of the update t replaces the text of the file
WriteApplied(t) ==
  /\ tasks[t].kind = "update" /\ tasks[t].pc = "modify"
  /\ Len(tasks') >= t /\ tasks'[t].pc = "modified"

\* the lines of the structure S that the nodes at path stand on, counted from 1
LinesAt(S, path) == {S.flatNodes[j].lineStart + 1 : j \in NodesAt(S, path)}

\* what the file held beside the text the write was computed from is still there: base
\* is that text, before and after are the file around the write
KeptBeside(base, before, after, written) ==
  /\ Len(after) = Len(before)
  /\ \A i \in DOMAIN before :
       (i \notin written /\ (i > Len(base) \/ before[i] # base[i])) => after[i] = before[i]

\* C35: a write discards nothing that reached the file since the structure it was
\* computed from was read: neither the value of another key that an updateVariable
\* overlapping it has written, nor a modification from outside that the cache had not
\* reloaded when the write started
C35_NoLostUpdate ==
  [][\A t \in Running :
       WriteApplied(t) =>
         KeptBeside(tasks[t].snapS[1].originalLines, file[tasks[t].proj].lines,
                    file'[tasks[t].proj].lines, LinesAt(tasks[t].snapS[1], tasks[t].path))]_vars


(***************************************************************************)
(* clearCache and the reads in flight                                      *)
(***************************************************************************)
\* clearCache() was the last call to return and nothing has been called since
JustCleared == lastDone.kind = "clear"

\* C36: when clearCache() runs (refresh, or rename or delete of a data or project file)
\* while a load or a reload of a project awaits its read, the end of that read stores
\* no entry for the project: after the clear a project has no entry until a load that
\* started after the clear completes
C36_ClearNotUndone ==
  [][JustCleared => \A p \in Projects : cache'[p] = <<>>]_vars


(***************************************************************************)
(* The projects apart                                                      *)
(***************************************************************************)
\* the data file of p is replaced in this step: changed from outside or written
FileChanged(p) == file'[p] # file[p]

\* C37: a modification of the data file of a project, and a write to it, change the
\* entry and the structure of that project only; every other project keeps its CacheEntry
\* and its structure, also while the variables pane is open on the project
C37_ProjectIsolation ==
  [][\A p \in Projects : FileChanged(p) =>
        \A q \in Projects \ {p} : cache'[q] = cache[q] /\ structureCache'[q] = structureCache[q]]_vars


(***************************************************************************)
(* The version and what a reader of the cache can see                      *)
(***************************************************************************)
\* get(projectInfo, key) on the entries c
LookedUp(c, p, key) == IF c[p] = <<>> THEN UndefV ELSE getNestedValue(c[p][1].data, key)

\* the result of get(p, key) for some key, or of getStructure(p), differs between the
\* two states of the step
ObservedChange(p) ==
  \/ structureCache'[p] # structureCache[p]
  \/ \E key \in LookupKeys : LookedUp(cache', p, key) # LookedUp(cache, p, key)

\* C38: whenever the result of get(P, key) or of getStructure(P) differs between two
\* observations, getCurrentVersion() is strictly larger at the second: an eviction not
\* followed by a successful reload and a structure stored by a load whose decode failed
\* raise the version too
C38_VersionDetectsChange ==
  [][\A p \in Projects : ObservedChange(p) => version' > version]_vars


(***************************************************************************)
(* The engine of a view after destroy                                      *)
(***************************************************************************)
\* a timer that was not pending is installed in this step
TimerInstalled ==
  \E timer \in {"debounceTimer", "scrollDebounceTimer"} :
    renderer'[timer] = "armed" /\ renderer[timer] # "armed"

\* a rebuild executes in this step
RebuildExecuted ==
  \/ renderer'.decorations # renderer.decorations
  \/ renderer'.cacheVersion # renderer.cacheVersion
  \/ engineLog' # engineLog /\ engineLog'.ran

\* C39: once the engine of a view has been destroyed no rebuild executes and no new timer
\* is installed for it, also when a background load that started before destroy
\* completes afterwards
C39_NothingAfterDestroy ==
  [][editor.destroyed => ~RebuildExecuted /\ ~TimerInstalled]_vars

====
